---- MODULE Spec2Model ----
(***************************************************************************)
(* The grid interaction state machine of the 5x5 site: the useDotGrid hook *)
(* (hover / selection / idle ripple and random animations, and the timers  *)
(* that drive them), with the dot-id helpers of the entity factory.        *)
(*                                                                         *)
(* JavaScript strings are sequences of one-character strings, so that      *)
(* template formatting, split('-') and parseInt are modelled by what they  *)
(* do.  Null is JavaScript's null; it differs from every string, the empty *)
(* string included.                                                        *)
(*                                                                         *)
(* One action is one run of an event handler or of a timer callback,       *)
(* followed by React's re-render: a handler called later sees the state    *)
(* committed by the handlers before it, while a timer callback keeps the   *)
(* values its closure captured when the timer was armed.                   *)
(*                                                                         *)
(* Spec is the animation and selection state machine.  DisplaySpec runs    *)
(* getDotDisplayState over the values its inputs take, and MouseSpec the   *)
(* two mouse-tracking handlers, which touch gridMousePosition only.        *)
(* ParserSpec runs the three dot-id parsers over ids that do and do not    *)
(* parse, FactorySpec calls the pure functions of the entity factory and   *)
(* of the grid/world conversion on bounded arguments, and DotSpec follows  *)
(* one dot entity from its creation through its updates.  AnimationsSpec   *)
(* calls the animation helpers (the animate state of a dot next to the     *)
(* Dot component's own computation, and the three pattern generators).     *)
(***************************************************************************)
EXTENDS Integers, Sequences, FiniteSets, TLC

\* ------------------------------------------------------------------ bounds
\* cols and randomCount are configuration values (defaults 5 and 25); the
\* model runs every configuration with cols + randomCount <= MaxConfigSum.
MaxConfigSum == 4
\* the number of user events (clicks, closes, hovers, open-grid-card events)
\* of one run
MaxInputs == 2
\* mouse tracking runs over grids of 1..MaxMouseCols columns (default 5), with
\* pointer coordinates 0..MaxCoord and rectangles up to MaxExtent wide and high
MaxMouseCols == 5
MaxCoord == 4
MaxExtent == 3

\* --------------------------------------------------------------- constants
NumRows == 5
\* DEFAULT_CONFIG.cols
DefaultCols == 5
LastRippleRow == 4
InactivityTimeout == 5000
RippleInterval == 200
RandomInterval == 200
PauseDelay == 100
MainRowOffset == 2
OverflowRowOffset == 5
\* a viewport narrower than this hides the dots that were not clicked
NarrowBelow == 1024

\* ------------------------------------------------------------------ strings
Null == <<"null">>

Truthy(s) == s # Null /\ s # <<>>

DigitChars == <<"0", "1", "2", "3", "4", "5", "6", "7", "8", "9">>

IsDigit(ch) == \E i \in 1..10 : DigitChars[i] = ch

DigitValue(ch) == (CHOOSE i \in 1..10 : DigitChars[i] = ch) - 1

\* `${n}` for a non-negative integer
RECURSIVE NumToStr(_)
NumToStr(n) ==
    IF n < 10 THEN <<DigitChars[n + 1]>>
    ELSE NumToStr(n \div 10) \o <<DigitChars[(n % 10) + 1]>>

\* parseInt yields NaN when the string does not start with a digit
NaN == -1

RECURSIVE ParseDigits(_, _)
ParseDigits(s, acc) ==
    IF s = <<>> \/ ~IsDigit(Head(s)) THEN acc
    ELSE ParseDigits(Tail(s), acc * 10 + DigitValue(Head(s)))

ParseInt(s) ==
    IF s = <<>> \/ ~IsDigit(Head(s)) THEN NaN ELSE ParseDigits(s, 0)

\* s.split('-')
RECURSIVE SplitDash(_)
SplitDash(s) ==
    IF \A i \in 1..Len(s) : s[i] # "-" THEN <<s>>
    ELSE LET k == CHOOSE i \in 1..Len(s) :
                      s[i] = "-" /\ \A j \in 1..(i - 1) : s[j] # "-"
         IN  <<SubSeq(s, 1, k - 1)>> \o SplitDash(SubSeq(s, k + 1, Len(s)))

\* ------------------------------------------------------------------ dot ids
createDotId(row, col, prefix) ==
    IF Truthy(prefix)
    THEN prefix \o <<"-">> \o NumToStr(row) \o <<"-">> \o NumToStr(col)
    ELSE NumToStr(row) \o <<"-">> \o NumToStr(col)

\* the template `${i}-${j}` of the hook's animations
CellId(row, col) == NumToStr(row) \o <<"-">> \o NumToStr(col)

\* --------------------------------------------------------------- slugging
UpperChars == <<"A", "B", "C", "D", "E", "F", "G", "H", "I", "J", "K", "L", "M",
                "N", "O", "P", "Q", "R", "S", "T", "U", "V", "W", "X", "Y", "Z">>

LowerChars == <<"a", "b", "c", "d", "e", "f", "g", "h", "i", "j", "k", "l", "m",
                "n", "o", "p", "q", "r", "s", "t", "u", "v", "w", "x", "y", "z">>

ToLowerChar(ch) ==
    IF \E i \in 1..26 : UpperChars[i] = ch
    THEN LowerChars[CHOOSE i \in 1..26 : UpperChars[i] = ch]
    ELSE ch

ToLowerCase(s) == [i \in 1..Len(s) |-> ToLowerChar(s[i])]

\* the character class [a-z0-9]
IsSlugChar(ch) == IsDigit(ch) \/ \E i \in 1..26 : LowerChars[i] = ch

\* mutant: every other character becomes a hyphen of its own
ReplaceRuns_PerCharacter(s) ==
    [i \in 1..Len(s) |-> IF IsSlugChar(s[i]) THEN s[i] ELSE "-"]

\* .replace(/[^a-z0-9]+/g, '-'): every maximal run of other characters
\* becomes one hyphen
RECURSIVE ReplaceRuns(_)
ReplaceRuns(s) ==
    IF s = <<>> THEN <<>>
    ELSE IF IsSlugChar(Head(s)) THEN <<Head(s)>> \o ReplaceRuns(Tail(s))
    ELSE IF Len(s) > 1 /\ ~IsSlugChar(s[2]) THEN ReplaceRuns(Tail(s))
    ELSE <<"-">> \o ReplaceRuns(Tail(s))

\* .replace(/^-+|-+$/g, '')
RECURSIVE TrimHyphens(_)
TrimHyphens(s) ==
    IF s = <<>> THEN s
    ELSE IF Head(s) = "-" THEN TrimHyphens(Tail(s))
    ELSE IF s[Len(s)] = "-" THEN TrimHyphens(SubSeq(s, 1, Len(s) - 1))
    ELSE s

\* mutant: the hyphens at the ends of the slug are kept
ArtistSlug_KeepsEndHyphens(artistName) == ReplaceRuns(ToLowerCase(artistName))

ArtistSlug(artistName) == TrimHyphens(ReplaceRuns(ToLowerCase(artistName)))

\* --------------------------------------------------------------- the data
\* GridData handed to the hook: one ordinary artist and one link to Instagram,
\* a one-cell main grid and a one-cell overflow grid.
ArtistSlugPrefix ==
    <<"e", "v", "e", "n", "t", "s", "-", "a", "n", "c", "i", "e", "n", "t", "-",
      "t", "e", "c", "h", "n", "o", "l", "o", "g", "y", "-">>

ArtistRoutePrefix ==
    <<"/", "e", "v", "e", "n", "t", "s", "/", "a", "n", "c", "i", "e", "n", "t",
      "-", "t", "e", "c", "h", "n", "o", "l", "o", "g", "y", "/">>

RootRoute == <<"/">>

SubscribeRoute == <<"/", "s", "u", "b", "s", "c", "r", "i", "b", "e">>

SubscribeKey == <<"S", "u", "b", "s", "c", "r", "i", "b", "e">>

SubscribeId == <<"s", "u", "b", "s", "c", "r", "i", "b", "e">>

ArtistJD ==
    [artistName |-> <<"J", " ", "D", ".">>,
     slug |-> ArtistSlugPrefix \o <<"j", "-", "d">>,
     isSpecialLink |-> FALSE, linkType |-> Null, url |-> Null]

InstagramLinkType == <<"i", "n", "s", "t", "a", "g", "r", "a", "m">>

ArtistInstagram ==
    [artistName |-> <<"I", "G">>, slug |-> <<"I", "G">>,
     isSpecialLink |-> TRUE, linkType |-> InstagramLinkType,
     url |-> <<"h", ":", "/", "/", "i", "g">>]

DataArtists == <<ArtistJD, ArtistInstagram>>

DataMainContent == << <<<<"A", "b">>>> >>

DataOverflowContent == << <<<<"Z", "e">>>> >>

\* the special dot the hook appends to the artists
SpecialSubscribe ==
    [artistName |-> SubscribeKey, slug |-> SubscribeKey,
     isSpecialLink |-> TRUE, linkType |-> SubscribeId, url |-> SubscribeRoute]

AllArtists == SubSeq(DataArtists, 1, IF Len(DataArtists) < 9 THEN Len(DataArtists) ELSE 9)
              \o <<SpecialSubscribe>>

\* ------------------------------------------------------------------ colors
HexChars == <<"0", "1", "2", "3", "4", "5", "6", "7", "8", "9",
              "a", "b", "c", "d", "e", "f">>

UpperHexChars == <<"0", "1", "2", "3", "4", "5", "6", "7", "8", "9",
                   "A", "B", "C", "D", "E", "F">>

HexValue(ch) ==
    (CHOOSE i \in 1..16 : HexChars[i] = ch \/ UpperHexChars[i] = ch) - 1

\* parseInt(c, 16) of a string of hex digits
RECURSIVE ParseHex(_, _)
ParseHex(s, acc) ==
    IF s = <<>> THEN acc ELSE ParseHex(Tail(s), acc * 16 + HexValue(Head(s)))

\* n.toString(16)
RECURSIVE ToString16(_)
ToString16(n) ==
    IF n < 0 THEN <<"-">> \o ToString16(-n)
    ELSE IF n < 16 THEN <<HexChars[n + 1]>>
    ELSE ToString16(n \div 16) \o <<HexChars[(n % 16) + 1]>>

\* s.padStart(2, '0')
PadStart2(s) == IF Len(s) < 2 THEN <<"0">> \o s ELSE s

\* Math.round(c1 + (c2 - c1) * factor) for the factor num / den, den > 0:
\* the nearest integer, a half rounded up
RoundMix(c1, c2, num, den) ==
    (2 * (c1 * den + (c2 - c1) * num) + den) \div (2 * den)

\* interpolateColor for the factor num / den
interpolateColor(color1, color2, num, den) ==
    LET r1 == ParseHex(SubSeq(color1, 2, 3), 0)
        g1 == ParseHex(SubSeq(color1, 4, 5), 0)
        b1 == ParseHex(SubSeq(color1, 6, 7), 0)
        r2 == ParseHex(SubSeq(color2, 2, 3), 0)
        g2 == ParseHex(SubSeq(color2, 4, 5), 0)
        b2 == ParseHex(SubSeq(color2, 6, 7), 0)
        r == RoundMix(r1, r2, num, den)
        g == RoundMix(g1, g2, num, den)
        b == RoundMix(b1, b2, num, den)
    IN  <<"#">> \o PadStart2(ToString16(r)) \o PadStart2(ToString16(g))
               \o PadStart2(ToString16(b))

PALETTE ==
    [skyfall |-> <<"#", "A", "8", "D", "5", "E", "5">>,
     dawnGlow |-> <<"#", "F", "F", "B", "7", "A", "5">>,
     violetHour |-> <<"#", "C", "9", "A", "7", "E", "B">>,
     dustyRose |-> <<"#", "D", "4", "A", "5", "A", "5">>,
     mustardPress |-> <<"#", "E", "8", "B", "8", "4", "A">>,
     seaFoam |-> <<"#", "9", "8", "D", "4", "B", "B">>,
     warmIvory |-> <<"#", "F", "B", "F", "7", "F", "0">>]

ROW_COLOR_ZONES ==
    <<[primary |-> PALETTE.skyfall, secondary |-> PALETTE.violetHour],
      [primary |-> PALETTE.violetHour, secondary |-> PALETTE.dustyRose],
      [primary |-> PALETTE.dustyRose, secondary |-> PALETTE.dawnGlow],
      [primary |-> PALETTE.dawnGlow, secondary |-> PALETTE.mustardPress],
      [primary |-> PALETTE.mustardPress, secondary |-> PALETTE.seaFoam]>>

\* the default of getPositionColor's totalCols
DefaultTotalCols == 5

\* mutant: the row is not clamped to the last zone, it wraps around
getPositionColor_WrapsRows(row, col, totalCols) ==
    LET zone == ROW_COLOR_ZONES[(row % Len(ROW_COLOR_ZONES)) + 1]
    IN  interpolateColor(zone.primary, zone.secondary, col, totalCols - 1)

\* getPositionColor for totalCols >= 2; colFactor is col / (totalCols - 1)
getPositionColor(row, col, totalCols) ==
    LET safeRow == IF row < Len(ROW_COLOR_ZONES) - 1 THEN row
                   ELSE Len(ROW_COLOR_ZONES) - 1
        zone == ROW_COLOR_ZONES[safeRow + 1]
    IN  interpolateColor(zone.primary, zone.secondary, col, totalCols - 1)

getGlowColor(row) ==
    LET nextRow == IF row + 1 < Len(ROW_COLOR_ZONES) - 1 THEN row + 1
                   ELSE Len(ROW_COLOR_ZONES) - 1
    IN  ROW_COLOR_ZONES[nextRow + 1].primary

\* ------------------------------------------------------- world coordinates
\* the defaults of gridToWorld and worldToGrid
DefaultCellSize == 1

DefaultGap == 0

gridToWorld(gridPos, cellSize, gap) ==
    [x |-> gridPos.col * (cellSize + gap), y |-> gridPos.row * (cellSize + gap)]

\* Math.floor(x / s) of integers.  A pitch s of 0 divides 0 by 0, which is
\* NaN (x is a multiple of the pitch wherever the model calls this).
FloorQuotient(x, s) ==
    IF s = 0 THEN NaN
    ELSE IF s > 0 THEN x \div s
    ELSE (-x) \div (-s)

worldToGrid(worldPos, cellSize, gap) ==
    [col |-> FloorQuotient(worldPos.x, cellSize + gap),
     row |-> FloorQuotient(worldPos.y, cellSize + gap)]

\* ----------------------------------------------------------- dot entities
\* A DotEntity.  An optional or nullable object is <<>> (absent) or <<it>>;
\* a nullable string is Null or the string; of a Date only whether it is set
\* is kept; a decimal is <<numerator, denominator>>.
DOT_DEFAULTS ==
    [visual |-> [scale |-> 1, opacity |-> 1, rotation |-> 0, glowIntensity |-> 0],
     physics |-> [velocity |-> [x |-> 0, y |-> 0],
                  acceleration |-> [x |-> 0, y |-> 0],
                  mass |-> 1, friction |-> <<1, 10>>, restitution |-> <<1, 2>>,
                  isStatic |-> TRUE],
     collection |-> [collectible |-> TRUE, collectedBy |-> Null,
                     collectedAt |-> FALSE, source |-> Null, value |-> 1]]

\* mutant: every created dot is collectible
createDot_AlwaysCollectible(input) ==
    LET baseColor == getPositionColor(input.gridPosition.row,
                                      input.gridPosition.col, DefaultTotalCols)
        worldPosition == gridToWorld(input.gridPosition, DefaultCellSize, DefaultGap)
    IN  [id |-> input.id,
         gridPosition |-> input.gridPosition,
         worldPosition |-> worldPosition,
         targetPosition |-> worldPosition,
         color |-> [base |-> baseColor, hover |-> PALETTE.warmIvory,
                    glow |-> getGlowColor(input.gridPosition.row),
                    current |-> baseColor],
         visual |-> DOT_DEFAULTS.visual,
         physics |-> DOT_DEFAULTS.physics,
         state |-> "idle",
         previousState |-> "idle",
         content |-> input.content,
         collection |-> [DOT_DEFAULTS.collection EXCEPT
                            !.value = IF input.value = <<>> THEN 1
                                      ELSE input.value[1]],
         createdAt |-> TRUE,
         lastInteraction |-> FALSE]

\* createDot; input.content is <<>> for null or undefined, input.value is
\* <<>> for undefined, input.color is the record of the colors given
createDot(input) ==
    LET content == input.content
        value == IF input.value = <<>> THEN 1 ELSE input.value[1]
        row == input.gridPosition.row
        col == input.gridPosition.col
        baseColor == getPositionColor(row, col, DefaultTotalCols)
        glowColor == getGlowColor(row)
        Given(name) == name \in DOMAIN input.color
        colorState ==
            [base |-> IF Given("base") THEN input.color.base ELSE baseColor,
             hover |-> IF Given("hover") THEN input.color.hover
                       ELSE PALETTE.warmIvory,
             glow |-> IF Given("glow") THEN input.color.glow ELSE glowColor,
             current |-> IF Given("current") THEN input.color.current
                         ELSE baseColor]
        worldPosition == gridToWorld(input.gridPosition, DefaultCellSize, DefaultGap)
    IN  [id |-> input.id,
         gridPosition |-> input.gridPosition,
         worldPosition |-> worldPosition,
         targetPosition |-> worldPosition,
         color |-> colorState,
         visual |-> DOT_DEFAULTS.visual,
         physics |-> DOT_DEFAULTS.physics,
         state |-> "idle",
         previousState |-> "idle",
         content |-> content,
         collection |-> [DOT_DEFAULTS.collection EXCEPT
                            !.value = value,
                            !.collectible = content # <<>>],
         createdAt |-> TRUE,
         lastInteraction |-> FALSE]

\* no colors given
NoColor == <<>>

\* createGridDot with the options {prefix, type} and no url; a type that is
\* not given is "undefined"
createGridDot(row, col, contentKey, prefix, optionsType) ==
    LET type == IF optionsType = "undefined" THEN "navigation" ELSE optionsType
        id == createDotId(row, col, prefix)
        content == [key |-> contentKey, label |-> contentKey,
                    type |-> type, url |-> Null]
    IN  createDot([id |-> id, gridPosition |-> [row |-> row, col |-> col],
                   content |-> <<content>>, color |-> NoColor, value |-> <<>>])

createArtistDot(row, col, artist) ==
    LET id == artist.slug
    IN  IF artist.isSpecialLink
        THEN LET content == [key |-> artist.slug, label |-> artist.artistName,
                             type |-> "special", url |-> artist.url]
             IN  createDot([id |-> id,
                            gridPosition |-> [row |-> row, col |-> col],
                            content |-> <<content>>, color |-> NoColor,
                            value |-> <<2>>])
        ELSE LET artistSlug ==
                     TrimHyphens(ReplaceRuns(ToLowerCase(artist.artistName)))
                 content == [key |-> artist.slug, label |-> artist.artistName,
                             type |-> "artist",
                             url |-> ArtistRoutePrefix \o artistSlug]
             IN  createDot([id |-> id,
                            gridPosition |-> [row |-> row, col |-> col],
                            content |-> <<content>>, color |-> NoColor,
                            value |-> <<5>>])

createEmptyDot(row, col, prefix) ==
    LET id == createDotId(row, col, prefix)
    IN  createDot([id |-> id, gridPosition |-> [row |-> row, col |-> col],
                   content |-> <<>>, color |-> NoColor, value |-> <<0>>])

\* mutant: the id is built from the array row, without the row offset
createDotGrid_IdFromArrayRow(gridContent, rowOffset, prefix, optionsContentType) ==
    [rowIndex \in 1..Len(gridContent) |->
        [colIndex \in 1..Len(gridContent[rowIndex]) |->
            LET content == gridContent[rowIndex][colIndex]
                made == IF ~Truthy(content)
                        THEN createEmptyDot(rowIndex - 1, colIndex - 1, prefix)
                        ELSE createGridDot(rowIndex - 1, colIndex - 1, content,
                                           prefix, optionsContentType)
            IN  [made EXCEPT !.gridPosition.row = (rowIndex - 1) + rowOffset]]]

\* createDotGrid with the options {rowOffset, prefix, contentType}; a
\* contentType that is not given is "undefined".  The indices of the rows
\* and cells start at 1 here and at 0 in the code.
createDotGrid(gridContent, rowOffset, prefix, optionsContentType) ==
    LET contentType == IF optionsContentType = "undefined" THEN "navigation"
                       ELSE optionsContentType
    IN  [rowIndex \in 1..Len(gridContent) |->
            [colIndex \in 1..Len(gridContent[rowIndex]) |->
                LET content == gridContent[rowIndex][colIndex]
                IN  IF ~Truthy(content)
                    THEN createEmptyDot((rowIndex - 1) + rowOffset,
                                        colIndex - 1, prefix)
                    ELSE createGridDot((rowIndex - 1) + rowOffset,
                                       colIndex - 1, content, prefix,
                                       contentType)]]

\* the forEach of createArtistGrid from the artist at index on
RECURSIVE ArtistGridLoop(_, _, _, _, _)
ArtistGridLoop(artists, c, index, rows, currentRow) ==
    IF index >= Len(artists)
    THEN IF Len(currentRow) > 0 THEN Append(rows, currentRow) ELSE rows
    ELSE LET row == index \div c
             col == index % c
             made == createArtistDot(row, col, artists[index + 1])
         IN  IF col = 0 /\ index # 0
             THEN ArtistGridLoop(artists, c, index + 1,
                                 Append(rows, currentRow), <<made>>)
             ELSE ArtistGridLoop(artists, c, index + 1, rows,
                                 Append(currentRow, made))

\* mutant: the last row is padded with empty dots to the width of the grid
createArtistGrid_PadsLastRow(artists, c) ==
    LET rows == ArtistGridLoop(artists, c, 0, <<>>, <<>>)
    IN  [r \in 1..Len(rows) |->
            [k \in 1..c |->
                IF k <= Len(rows[r]) THEN rows[r][k]
                ELSE createEmptyDot(r - 1, k - 1, Null)]]

\* createArtistGrid for cols >= 1
createArtistGrid(artists, c) == ArtistGridLoop(artists, c, 0, <<>>, <<>>)

mainDots == createDotGrid(DataMainContent, MainRowOffset, Null, "project")

overflowDots ==
    createDotGrid(DataOverflowContent, OverflowRowOffset,
                  <<"o", "v", "e", "r", "f", "l", "o", "w">>, "project")

\* the hook's allArtists for any data.artists
allArtists(artists) ==
    SubSeq(artists, 1, IF Len(artists) < 9 THEN Len(artists) ELSE 9)
       \o <<SpecialSubscribe>>

\* the three sub-grids useDotGrid(data, _, {cols}) builds
useDotGridEntities(data, c) ==
    [artistDots |-> createArtistGrid(allArtists(data.artists), c),
     mainDots |-> createDotGrid(data.mainContent, MainRowOffset, Null, "project"),
     overflowDots |->
         createDotGrid(data.overflowContent, OverflowRowOffset,
                       <<"o", "v", "e", "r", "f", "l", "o", "w">>, "project")]

\* grid.flat()
RECURSIVE flattenDotGrid(_)
flattenDotGrid(grid) ==
    IF grid = <<>> THEN <<>> ELSE Head(grid) \o flattenDotGrid(Tail(grid))

\* the dots of a grid that have content: what a click on the grid passes to
\* handleDotClick
ClickableDots(grid) ==
    LET flat == flattenDotGrid(grid)
    IN  {flat[i] : i \in {j \in 1..Len(flat) : flat[j].content # <<>>}}

\* mutant: the state before the update is not recorded
updateDotState_KeepsPrevious(d, newState) ==
    [d EXCEPT !.state = newState, !.lastInteraction = TRUE]

updateDotState(d, newState) ==
    [d EXCEPT !.previousState = d.state,
              !.state = newState,
              !.lastInteraction = TRUE]

\* mutant: a visual update counts as a transition to 'animating'
updateDotVisual_Animates(d, visual) ==
    [d EXCEPT !.visual = [k \in DOMAIN d.visual |->
                             IF k \in DOMAIN visual THEN visual[k]
                             ELSE d.visual[k]],
              !.previousState = d.state,
              !.state = "animating"]

\* updateDotVisual; visual is the record of the properties given
updateDotVisual(d, visual) ==
    [d EXCEPT !.visual = [k \in DOMAIN d.visual |->
                             IF k \in DOMAIN visual THEN visual[k]
                             ELSE d.visual[k]]]

collectDot(d, sessionId, source) ==
    [d EXCEPT !.state = "collected",
              !.previousState = d.state,
              !.collection = [d.collection EXCEPT !.collectedBy = sessionId,
                                                  !.collectedAt = TRUE,
                                                  !.source = source]]

\* ------------------------------------------------------- dot animations
\* Numbers that are not integers are pairs <<numerator, denominator>>.
DOT_SCALES ==
    [idle |-> <<1, 1>>, hovered |-> <<3, 2>>, rippling |-> <<2, 1>>,
     highlighted |-> <<2, 1>>, selected |-> <<6, 5>>, hidden |-> <<0, 1>>]

getDotScale(state) ==
    IF state.isHovered THEN DOT_SCALES.hovered
    ELSE IF state.isRippling THEN DOT_SCALES.rippling
    ELSE IF state.isRandomlySelected THEN DOT_SCALES.highlighted
    ELSE IF state.isSelected
    THEN IF state.isClickedDot THEN DOT_SCALES.selected ELSE DOT_SCALES.hidden
    ELSE DOT_SCALES.idle

getDotOpacity(state) ==
    IF state.shouldHide THEN 0
    ELSE IF state.isSelected THEN IF state.isClickedDot THEN 1 ELSE 0
    ELSE 1

\* an offset of the animate prop: the number n, or the string
\* `calc(${n} * (100% + clamp(0.5rem, 3vmin, 2rem)))`
OffsetNumber(n) == [kind |-> "number", n |-> n]

OffsetCalc(n) == [kind |-> "calc", n |-> n]

\* selectedPosition is <<>> for undefined
getDotPositionOffset(currentPosition, selectedPosition, isSelected, isClickedDot) ==
    IF ~isSelected \/ isClickedDot \/ selectedPosition = <<>>
    THEN [x |-> OffsetNumber(0), y |-> OffsetNumber(0)]
    ELSE LET currentRow == currentPosition.row
             currentCol == currentPosition.col
             selectedRow == selectedPosition[1].row
             selectedCol == selectedPosition[1].col
         IN  [x |-> OffsetCalc(selectedCol - currentCol),
              y |-> OffsetCalc(selectedRow - currentRow)]

getDotAnimateState(currentPosition, selectedPosition, state) ==
    LET scale == getDotScale(state)
        opacity == getDotOpacity(state)
        offset == getDotPositionOffset(currentPosition, selectedPosition,
                                       state.isSelected, state.isClickedDot)
    IN  [scale |-> scale, x |-> offset.x, y |-> offset.y, opacity |-> opacity]

\* the scale, x, y and opacity of the animate prop of the Dot component of
\* the grid renderer; props holds the flags and the two positions
Dot_animate(props) ==
    LET row == props.currentPosition.row
        col == props.currentPosition.col
        selectedRow == IF props.selectedPosition = <<>> THEN 0
                       ELSE props.selectedPosition[1].row
        selectedCol == IF props.selectedPosition = <<>> THEN 0
                       ELSE props.selectedPosition[1].col
    IN  [scale |-> IF props.isHovered THEN <<3, 2>>
                   ELSE IF props.isRippling THEN <<2, 1>>
                   ELSE IF props.isRandomlySelected THEN <<2, 1>>
                   ELSE IF props.isSelected
                   THEN IF props.isClickedDot THEN <<6, 5>> ELSE <<0, 1>>
                   ELSE <<1, 1>>,
         x |-> IF props.isSelected /\ ~props.isClickedDot
               THEN OffsetCalc(selectedCol - col) ELSE OffsetNumber(0),
         y |-> IF props.isSelected /\ ~props.isClickedDot
               THEN OffsetCalc(selectedRow - row) ELSE OffsetNumber(0),
         opacity |-> IF props.shouldHide THEN 0
                     ELSE IF props.isSelected
                     THEN IF props.isClickedDot THEN 1 ELSE 0
                     ELSE 1]

\* the array the nested loops over row and col fill, for rows, cols >= 0
PatternPositions(rows, cols) ==
    [k \in 1..(rows * cols) |->
        [row |-> (k - 1) \div cols, col |-> (k - 1) % cols]]

\* mutant: the loops run over the columns first
ripplePattern_ColumnMajor(rows, cols) ==
    [k \in 1..(rows * cols) |->
        [row |-> (k - 1) % rows, col |-> (k - 1) \div rows]]

\* the positions ripplePattern yields, in order
ripplePattern(rows, cols) == PatternPositions(rows, cols)

\* [positions[i], positions[j]] = [positions[j], positions[i]], the indices
\* starting at 0
SwapAt(positions, i, j) ==
    [positions EXCEPT ![i + 1] = positions[j + 1], ![j + 1] = positions[i + 1]]

\* the outcomes of the shuffle loop from index i down to 1, j being
\* Math.floor(Math.random() * (i + 1))
RECURSIVE Shuffle(_, _)
Shuffle(positions, i) ==
    IF i <= 0 THEN {positions}
    ELSE UNION {Shuffle(SwapAt(positions, i, j), i - 1) : j \in 0..i}

\* mutant: the shuffle copies positions[j] over positions[i]
RECURSIVE Shuffle_Copies(_, _)
Shuffle_Copies(positions, i) ==
    IF i <= 0 THEN {positions}
    ELSE UNION {Shuffle_Copies([positions EXCEPT ![i + 1] = positions[j + 1]],
                               i - 1) : j \in 0..i}

\* mutant: randomPattern with the copying shuffle
randomPattern_Copies(rows, cols, count) ==
    LET positions == PatternPositions(rows, cols)
        limit == IF count = <<>> THEN Len(positions) ELSE count[1]
        yielded == IF limit < Len(positions)
                   THEN (IF limit < 0 THEN 0 ELSE limit)
                   ELSE Len(positions)
    IN  {SubSeq(shuffled, 1, yielded) :
            shuffled \in Shuffle_Copies(positions, Len(positions) - 1)}

\* the sequences randomPattern can yield; count is <<>> when omitted
randomPattern(rows, cols, count) ==
    LET positions == PatternPositions(rows, cols)
        limit == IF count = <<>> THEN Len(positions) ELSE count[1]
        yielded == IF limit < Len(positions)
                   THEN (IF limit < 0 THEN 0 ELSE limit)
                   ELSE Len(positions)
    IN  {SubSeq(shuffled, 1, yielded) :
            shuffled \in Shuffle(positions, Len(positions) - 1)}

\* the square of the distance convergePattern computes: Math.sqrt is
\* increasing, so b.distance - a.distance has the sign of the difference of
\* the squares
DistanceSquared(pos, center) ==
    (pos.col - center.col) * (pos.col - center.col)
       + (pos.row - center.row) * (pos.row - center.row)

\* positions.sort((a, b) => b.distance - a.distance): Array.prototype.sort
\* is stable, an entry goes behind the entries that are not nearer
RECURSIVE SortFurthestFirst(_, _)
SortFurthestFirst(entries, sorted) ==
    IF entries = <<>> THEN sorted
    ELSE LET e == Head(entries)
             before == {k \in 1..Len(sorted) : sorted[k].distance >= e.distance}
             n == Cardinality(before)
         IN  SortFurthestFirst(Tail(entries),
                 SubSeq(sorted, 1, n) \o <<e>> \o SubSeq(sorted, n + 1, Len(sorted)))

\* the positions convergePattern yields, in order
convergePattern(rows, cols, center) ==
    LET positions == PatternPositions(rows, cols)
        entries == [k \in 1..Len(positions) |->
                       [pos |-> positions[k],
                        distance |-> DistanceSquared(positions[k], center)]]
        sorted == SortFurthestFirst(entries, <<>>)
    IN  [k \in 1..Len(sorted) |-> sorted[k].pos]

\* -------------------------------------------------------- dot-id parsers
\* parseInt of parts[i], which is undefined outside the array
ParseIntAt(parts, i) ==
    IF i \in 1..Len(parts) THEN ParseInt(parts[i]) ELSE NaN

\* parseDotId: always a record; prefix is <<>> when the id has two parts
parseDotId(id) ==
    LET parts == SplitDash(id)
    IN  IF Len(parts) = 2
        THEN <<[row |-> ParseInt(parts[1]), col |-> ParseInt(parts[2]),
                prefix |-> <<>>]>>
        ELSE <<[row |-> ParseIntAt(parts, 2), col |-> ParseIntAt(parts, 3),
                prefix |-> <<parts[1]>>]>>

\* mutant: the row is read from the first part of the id
SelectedPosition_FirstPart(selected) ==
    IF ~Truthy(selected) THEN <<>>
    ELSE LET parts == SplitDash(selected)
         IN  IF Len(parts) >= 2
             THEN LET row == ParseInt(parts[1])
                      col == ParseInt(parts[Len(parts)])
                  IN  IF row # NaN /\ col # NaN
                      THEN <<[row |-> row, col |-> col]>>
                      ELSE <<>>
             ELSE <<>>

\* the body of the hook's getSelectedPosition for a value of selectedDot;
\* <<>> is undefined
SelectedPosition(selected) ==
    IF ~Truthy(selected) THEN <<>>
    ELSE LET parts == SplitDash(selected)
         IN  IF Len(parts) >= 2
             THEN LET part == IF parts[Len(parts) - 1] # <<>>
                              THEN parts[Len(parts) - 1] ELSE parts[1]
                      row == ParseInt(part)
                      col == ParseInt(parts[Len(parts)])
                  IN  IF row # NaN /\ col # NaN
                      THEN <<[row |-> row, col |-> col]>>
                      ELSE <<>>
             ELSE <<>>

\* useDotProps' selectedPosition for a value of selectedDot
selectedPosition(selected) ==
    IF ~Truthy(selected) THEN <<>>
    ELSE LET parts == SplitDash(selected)
         IN  IF Len(parts) >= 2
             THEN LET row == ParseInt(parts[Len(parts) - 1])
                      col == ParseInt(parts[Len(parts)])
                  IN  IF row # NaN /\ col # NaN
                      THEN <<[row |-> row, col |-> col]>>
                      ELSE <<>>
             ELSE <<>>

\* ------------------------------------------------------------------- state
VARIABLES
    cols, randomCount,    \* mergedConfig.cols, mergedConfig.randomCount
    inputsLeft,           \* the user events the run may still take
    mounted,              \* the component is mounted
    hoveredDot, selectedDot, selectedContent, rippleDot, randomDot,
    isContentExpanded,    \* React state
    inactivityTimer,      \* refs to timer handles: "null", "live" (the handle
    rippleIntervalRef,    \*   of a pending timer) or "dead" (the handle of a
    randomIntervalRef,    \*   timer that fired or was cleared)
    isAnimatingRef, usedDotsRef, animationCountRef,
    timers,               \* the event loop: pending timers of each kind
    closureSelectedDot,   \* selectedDot as captured by the pending inactivity
                          \*   callback's closure
    navigation,           \* the last router.push / window.open
    rippleTrace,          \* history: the cells shown by the current ripple
    lastPick,             \* history of the current random sequence: the last
    picksShown,           \*   pick, the picks and nulls shown so far, and
    nullsShown,           \*   whether a pick repeated the pick before it
    repeatedPick,
    mountSelection,       \* history: a dot was selected at mount and no close
                          \*   has cleared the selection since
    lookupMissed,         \* history: the last step was an open-grid-card
                          \*   event that found no card
    pointerSinceArmed,    \* history: a hover or a grid mouse-move came after
                          \*   the pending inactivity timeout was armed
    enableMouseTracking,  \* mergedConfig.enableMouseTracking
    gridMousePosition,    \* React state: <<>> (null) or <<[row, col]>>
    window,               \* the global window: <<>> (undefined, as on the
                          \*   server) or <<[innerWidth]>>
    displayState,         \* the last call of getDotDisplayState: <<>> or
                          \*   <<its argument, the state at the call and its
                          \*   result>>
    heldDot,              \* a DotEntity a caller of the factory holds: <<>>
                          \*   or <<the entity>>
    lastCall              \* the last call of a pure function of the
                          \*   entities: <<>> or <<its name, arguments and
                          \*   result>>

vars == <<cols, randomCount, inputsLeft, mounted, hoveredDot, selectedDot, selectedContent, rippleDot,
          randomDot, isContentExpanded, inactivityTimer, rippleIntervalRef,
          randomIntervalRef, isAnimatingRef, usedDotsRef, animationCountRef,
          timers, closureSelectedDot, navigation, rippleTrace, lastPick,
          picksShown, nullsShown, repeatedPick, mountSelection, lookupMissed,
          pointerSinceArmed, enableMouseTracking, gridMousePosition, window, displayState, heldDot,
          lastCall>>

reactState == <<hoveredDot, selectedDot, selectedContent, rippleDot, randomDot,
                isContentExpanded>>

config == <<cols, randomCount>>

\* what the renderers read besides the hook's selection and animation state;
\* the handlers and timer callbacks of the animation state machine leave it
\* alone
view == <<enableMouseTracking, gridMousePosition, window, displayState, heldDot,
         lastCall>>

randomHistory == <<lastPick, picksShown, nullsShown, repeatedPick>>

history == <<rippleTrace, lastPick, picksShown, nullsShown, repeatedPick>>

NoTimers == [inactivity |-> 0, ripple |-> 0, random |-> 0, pause |-> 0]

\* clearTimeout / clearInterval of the handle a ref holds
ClearTimer(t, ref, kind) ==
    IF ref = "live" THEN [t EXCEPT ![kind] = @ - 1] ELSE t

\* a state setter called after unmount changes nothing
SetState(old, new) == IF mounted THEN new ELSE old

\* the hook's getSelectedPosition
getSelectedPosition == SelectedPosition(selectedDot)

\* ------------------------------------------------------- animation helpers
\* arithmetic and `${n}` on a number that may be NaN
JsPlus(n, k) == IF n = NaN THEN NaN ELSE n + k

JsNumToStr(n) == IF n = NaN THEN <<"N", "a", "N">> ELSE NumToStr(n)

FirstRippleId == <<"0", "-", "0">>

\* mutant: the wrap to the next row tests col against cols, one column late
getNextRipplePosition_WrapsLate(current, c) ==
    IF ~Truthy(current) THEN FirstRippleId
    ELSE LET parts == SplitDash(current)
             n == Len(parts)
             row == ParseInt(parts[n - 1])
             col == ParseInt(parts[n])
         IN  IF col = c
             THEN IF row = LastRippleRow THEN Null
                  ELSE JsNumToStr(JsPlus(row, 1)) \o <<"-", "0">>
             ELSE JsNumToStr(row) \o <<"-">> \o JsNumToStr(JsPlus(col, 1))

getNextRipplePosition(current, c) ==
    IF ~Truthy(current) THEN FirstRippleId
    ELSE LET parts == SplitDash(current)
             n == Len(parts)
             rowPart == IF n >= 2 /\ Truthy(parts[n - 1]) THEN parts[n - 1]
                        ELSE parts[1]
             row == ParseInt(rowPart)
             col == ParseInt(parts[n])
         IN  IF col = c - 1
             THEN IF row = LastRippleRow THEN Null
                  ELSE JsNumToStr(JsPlus(row, 1)) \o <<"-", "0">>
             ELSE JsNumToStr(row) \o <<"-">> \o JsNumToStr(JsPlus(col, 1))

\* the outcomes of getRandomUnusedDot: the id returned and the used-set left
getRandomUnusedDot(used, c) ==
    LET all == {CellId(i, j) : i \in 0..(NumRows - 1), j \in 0..(c - 1)}
        allDotIds == all \ used
    IN  IF allDotIds = {}
        THEN {[selected |-> id, used |-> {id}] : id \in all}
        ELSE {[selected |-> id, used |-> used \cup {id}] : id \in allDotIds}

\* mutant: the inactivity timeout is left pending
clearAllAnimations_KeepsInactivity ==
    /\ timers' = ClearTimer(ClearTimer(timers,
                     rippleIntervalRef, "ripple"),
                     randomIntervalRef, "random")
    /\ rippleIntervalRef' = "null"
    /\ randomIntervalRef' = "null"
    /\ inactivityTimer' = "null"
    /\ rippleDot' = Null
    /\ randomDot' = Null
    /\ isAnimatingRef' = FALSE
    /\ pointerSinceArmed' = FALSE

\* mutant: the random interval is left running
clearAllAnimations_KeepsRandomInterval ==
    /\ timers' = ClearTimer(ClearTimer(timers,
                     rippleIntervalRef, "ripple"),
                     inactivityTimer, "inactivity")
    /\ rippleIntervalRef' = "null"
    /\ randomIntervalRef' = randomIntervalRef
    /\ inactivityTimer' = "null"
    /\ rippleDot' = Null
    /\ randomDot' = Null
    /\ isAnimatingRef' = FALSE
    /\ pointerSinceArmed' = FALSE

clearAllAnimations ==
    /\ timers' = ClearTimer(ClearTimer(ClearTimer(timers,
                     rippleIntervalRef, "ripple"),
                     randomIntervalRef, "random"),
                     inactivityTimer, "inactivity")
    /\ rippleIntervalRef' = "null"
    /\ randomIntervalRef' = "null"
    /\ inactivityTimer' = "null"
    /\ rippleDot' = Null
    /\ randomDot' = Null
    /\ isAnimatingRef' = FALSE
    /\ pointerSinceArmed' = FALSE

\* resetInactivityTimer as created by a render that saw selectedDot = sel:
\* the timers, the handle and the closure it leaves
resetInactivityTimer(t, ref, animating, sel, closure) ==
    LET cleared == ClearTimer(t, ref, "inactivity")
        handle == IF ref = "live" THEN "dead" ELSE ref
    IN  IF ~animating /\ ~Truthy(sel)
        THEN [timers |-> [cleared EXCEPT !.inactivity = @ + 1],
              inactivityTimer |-> "live", closure |-> sel]
        ELSE [timers |-> cleared, inactivityTimer |-> handle, closure |-> closure]

NoHistory ==
    /\ rippleTrace' = <<>>
    /\ lastPick' = Null
    /\ picksShown' = 0
    /\ nullsShown' = 0
    /\ repeatedPick' = FALSE

runRippleAnimation(t, sel) ==
    IF isAnimatingRef \/ Truthy(sel)
    THEN /\ timers' = t
         /\ UNCHANGED <<isAnimatingRef, rippleDot, rippleIntervalRef, rippleTrace>>
    ELSE /\ isAnimatingRef' = TRUE
         /\ rippleDot' = SetState(rippleDot, FirstRippleId)
         /\ rippleIntervalRef' = "live"
         /\ timers' = [t EXCEPT !.ripple = @ + 1]
         /\ rippleTrace' = <<FirstRippleId>>

runRandomDotAnimation(t, sel) ==
    IF isAnimatingRef \/ Truthy(sel)
    THEN /\ timers' = t
         /\ UNCHANGED <<isAnimatingRef, animationCountRef, usedDotsRef, randomDot,
                        randomIntervalRef, randomHistory>>
    ELSE /\ isAnimatingRef' = TRUE
         /\ \E nextDot \in getRandomUnusedDot(usedDotsRef, cols) :
               /\ usedDotsRef' = nextDot.used
               /\ randomDot' = SetState(randomDot, nextDot.selected)
               /\ lastPick' = nextDot.selected
         /\ animationCountRef' = 1
         /\ randomIntervalRef' = "live"
         /\ timers' = [t EXCEPT !.random = @ + 1]
         /\ picksShown' = 1
         /\ nullsShown' = 0
         /\ repeatedPick' = FALSE

\* ----------------------------------------------------------- timer callbacks
\* The pause between picks is the shortest delay: a timer with a longer delay
\* is not due while a pause armed before it, or during its delay, is pending.
DueAfterPause(delay) == PauseDelay < delay => timers.pause = 0

\* mutant: the comparison never succeeds, the callback always randomizes
RandomBelowHalf_Never == {FALSE}

\* the outcomes of Math.random() < 0.5
RandomBelowHalf == {TRUE, FALSE}

\* the callback of resetInactivityTimer's setTimeout
InactivityFire ==
    /\ timers.inactivity > 0
    /\ DueAfterPause(InactivityTimeout)
    /\ inactivityTimer' =
          IF inactivityTimer = "live" /\ timers.inactivity = 1 THEN "dead"
          ELSE inactivityTimer
    /\ \E below \in RandomBelowHalf :
          IF below
          THEN /\ runRippleAnimation([timers EXCEPT !.inactivity = @ - 1],
                                     closureSelectedDot)
               /\ UNCHANGED <<animationCountRef, usedDotsRef, randomDot,
                              randomIntervalRef, randomHistory>>
          ELSE /\ runRandomDotAnimation([timers EXCEPT !.inactivity = @ - 1],
                                        closureSelectedDot)
               /\ UNCHANGED <<rippleDot, rippleIntervalRef, rippleTrace>>
    /\ lookupMissed' = FALSE
    /\ pointerSinceArmed' = FALSE
    /\ UNCHANGED <<config, view, mountSelection, inputsLeft, mounted, hoveredDot, selectedDot,
                   selectedContent, isContentExpanded, closureSelectedDot,
                   navigation>>

\* the callback of runRippleAnimation's setInterval
RippleTick ==
    /\ timers.ripple > 0
    /\ lookupMissed' = FALSE
    /\ DueAfterPause(RippleInterval)
    /\ LET next == getNextRipplePosition(rippleDot, cols)
       IN  IF ~Truthy(next)
           THEN /\ timers' = ClearTimer(timers, rippleIntervalRef, "ripple")
                /\ rippleIntervalRef' = "null"
                /\ rippleDot' = SetState(rippleDot, Null)
                /\ isAnimatingRef' = FALSE
                /\ rippleTrace' = Append(rippleTrace, Null)
           ELSE /\ rippleDot' = SetState(rippleDot, next)
                /\ rippleTrace' = Append(rippleTrace, next)
                /\ UNCHANGED <<timers, rippleIntervalRef, isAnimatingRef>>
    /\ UNCHANGED <<pointerSinceArmed, config, view, mountSelection, inputsLeft, mounted, hoveredDot, selectedDot,
                   selectedContent, randomDot, isContentExpanded,
                   inactivityTimer, randomIntervalRef, usedDotsRef,
                   animationCountRef, closureSelectedDot, navigation,
                   randomHistory>>

\* mutant: the sequence ends one pick late
randomSequenceDone_OneLate(count, limit) == count > limit

\* the interval callback's test for the end of the sequence
randomSequenceDone(count, limit) == count >= limit

\* the callback of runRandomDotAnimation's setInterval
RandomTick ==
    /\ timers.random > 0
    /\ lookupMissed' = FALSE
    /\ DueAfterPause(RandomInterval)
    /\ IF randomSequenceDone(animationCountRef, randomCount)
       THEN /\ timers' = ClearTimer(timers, randomIntervalRef, "random")
            /\ randomIntervalRef' = "null"
            /\ randomDot' = SetState(randomDot, Null)
            /\ isAnimatingRef' = FALSE
            /\ usedDotsRef' = {}
       ELSE /\ randomDot' = SetState(randomDot, Null)
            /\ timers' = [timers EXCEPT !.pause = @ + 1]
            /\ UNCHANGED <<randomIntervalRef, isAnimatingRef, usedDotsRef>>
    /\ nullsShown' = nullsShown + 1
    /\ UNCHANGED <<pointerSinceArmed, config, view, mountSelection, inputsLeft, mounted, hoveredDot, selectedDot,
                   selectedContent, rippleDot, isContentExpanded,
                   inactivityTimer, rippleIntervalRef, animationCountRef,
                   closureSelectedDot, navigation, rippleTrace, lastPick,
                   picksShown, repeatedPick>>

\* the callback of the setTimeout(..., 100) inside the random interval
PauseFire ==
    /\ timers.pause > 0
    /\ lookupMissed' = FALSE
    /\ timers' = [timers EXCEPT !.pause = @ - 1]
    /\ \E next \in getRandomUnusedDot(usedDotsRef, cols) :
          /\ usedDotsRef' = next.used
          /\ randomDot' = SetState(randomDot, next.selected)
          /\ IF randomIntervalRef = "live"
             THEN /\ lastPick' = next.selected
                  /\ picksShown' = picksShown + 1
                  /\ repeatedPick' = (repeatedPick \/ next.selected = lastPick)
             ELSE UNCHANGED <<lastPick, picksShown, repeatedPick>>
    /\ animationCountRef' = animationCountRef + 1
    /\ UNCHANGED <<pointerSinceArmed, config, view, mountSelection, inputsLeft, mounted, hoveredDot, selectedDot,
                   selectedContent, rippleDot, isContentExpanded,
                   inactivityTimer, rippleIntervalRef, randomIntervalRef,
                   isAnimatingRef, closureSelectedDot, navigation, rippleTrace,
                   nullsShown>>

\* ------------------------------------------------------------ event handlers
\* a user event: the component is mounted and the run may still take one
UserEvent ==
    /\ mounted
    /\ inputsLeft > 0
    /\ inputsLeft' = inputsLeft - 1
    /\ UNCHANGED <<config, view, mounted>>

handleDotClick(dotId, contentKey) ==
    /\ UserEvent
    /\ lookupMissed' = FALSE
    /\ clearAllAnimations
    /\ selectedDot' = dotId
    /\ selectedContent' = contentKey
    /\ NoHistory
    /\ UNCHANGED <<hoveredDot, isContentExpanded, usedDotsRef,
                   animationCountRef, closureSelectedDot, navigation,
                   mountSelection>>

\* mutant: a special link does not return early and is selected like an artist
handleArtistDotClick_NoEarlyReturn(dotId, artist) ==
    /\ UserEvent
    /\ lookupMissed' = FALSE
    /\ clearAllAnimations
    /\ IF artist.isSpecialLink
       THEN /\ navigation' =
                  IF artist.linkType = SubscribeId
                  THEN [via |-> "push", to |-> SubscribeRoute]
                  ELSE IF artist.linkType = InstagramLinkType
                          /\ Truthy(artist.url)
                  THEN [via |-> "open", to |-> artist.url]
                  ELSE navigation
            /\ selectedDot' = dotId
            /\ selectedContent' = ArtistSlug(artist.artistName)
       ELSE LET artistSlug == ArtistSlug(artist.artistName)
            IN  /\ navigation' = [via |-> "push", to |-> ArtistRoutePrefix \o artistSlug]
                /\ selectedDot' = dotId
                /\ selectedContent' = artistSlug
    /\ NoHistory
    /\ UNCHANGED <<hoveredDot, isContentExpanded, usedDotsRef,
                   animationCountRef, closureSelectedDot, mountSelection>>

handleArtistDotClick(dotId, artist) ==
    /\ UserEvent
    /\ lookupMissed' = FALSE
    /\ clearAllAnimations
    /\ IF artist.isSpecialLink
       THEN /\ navigation' =
                  IF artist.linkType = SubscribeId
                  THEN [via |-> "push", to |-> SubscribeRoute]
                  ELSE IF artist.linkType = InstagramLinkType
                          /\ Truthy(artist.url)
                  THEN [via |-> "open", to |-> artist.url]
                  ELSE navigation
            /\ UNCHANGED <<selectedDot, selectedContent>>
       ELSE LET artistSlug == ArtistSlug(artist.artistName)
            IN  /\ navigation' = [via |-> "push", to |-> ArtistRoutePrefix \o artistSlug]
                /\ selectedDot' = dotId
                /\ selectedContent' = artistSlug
    /\ NoHistory
    /\ UNCHANGED <<hoveredDot, isContentExpanded, usedDotsRef,
                   animationCountRef, closureSelectedDot, mountSelection>>

\* the body shared by handleBackgroundClick and handleClose; the
\* resetInactivityTimer they call was created by the render that created
\* them, and sees that render's selectedDot
CloseCard ==
    LET reset == resetInactivityTimer(timers, inactivityTimer, isAnimatingRef,
                                      selectedDot, closureSelectedDot)
    IN  /\ selectedDot' = Null
        /\ selectedContent' = Null
        /\ isContentExpanded' = FALSE
        /\ navigation' = [via |-> "push", to |-> RootRoute]
        /\ timers' = reset.timers
        /\ inactivityTimer' = reset.inactivityTimer
        /\ closureSelectedDot' = reset.closure
        /\ mountSelection' = FALSE
        /\ pointerSinceArmed' = FALSE

\* mutant: the background click closes whether or not content is selected
handleBackgroundClick_Unguarded ==
    /\ UserEvent
    /\ lookupMissed' = FALSE
    /\ CloseCard
    /\ UNCHANGED <<hoveredDot, rippleDot, randomDot, rippleIntervalRef,
                   randomIntervalRef, isAnimatingRef, usedDotsRef,
                   animationCountRef, history>>

handleBackgroundClick ==
    /\ UserEvent
    /\ lookupMissed' = FALSE
    /\ IF Truthy(selectedContent)
       THEN CloseCard
       ELSE UNCHANGED <<selectedDot, selectedContent, isContentExpanded,
                        navigation, timers, inactivityTimer, closureSelectedDot,
                        mountSelection, pointerSinceArmed>>
    /\ UNCHANGED <<hoveredDot, rippleDot, randomDot, rippleIntervalRef,
                   randomIntervalRef, isAnimatingRef, usedDotsRef,
                   animationCountRef, history>>

handleClose ==
    /\ UserEvent
    /\ lookupMissed' = FALSE
    /\ CloseCard
    /\ UNCHANGED <<hoveredDot, rippleDot, randomDot, rippleIntervalRef,
                   randomIntervalRef, isAnimatingRef, usedDotsRef,
                   animationCountRef, history>>

\* mutant: a key that no cell holds resolves to the first cell
FindInMainContent_FallsBackToFirst(key) ==
    IF \E r \in 1..Len(DataMainContent) :
          \E c \in 1..Len(DataMainContent[r]) : DataMainContent[r][c] = key
    THEN CHOOSE rc \in {<<r, c>> : r \in 1..Len(DataMainContent),
                                  c \in 1..Len(DataMainContent[1])} :
            DataMainContent[rc[1]][rc[2]] = key
    ELSE <<1, 1>>

\* the first cell of mainContent, in row-major order, that holds key: the
\* array indices the handler's loops stop at, or <<>> when no cell does
FindInMainContent(key) ==
    LET hits == {rc \in UNION {{<<r, c>> : c \in 1..Len(DataMainContent[r])} :
                                r \in 1..Len(DataMainContent)} :
                    DataMainContent[rc[1]][rc[2]] = key}
    IN  IF hits = {} THEN <<>>
        ELSE CHOOSE rc \in hits :
                \A o \in hits : rc[1] < o[1] \/ (rc[1] = o[1] /\ rc[2] <= o[2])

\* the hook's listener for the open-grid-card event
OpenGridCard(key) ==
    /\ UserEvent
    /\ IF ~Truthy(key)
       THEN /\ UNCHANGED <<selectedDot, selectedContent>>
            /\ lookupMissed' = TRUE
       ELSE IF key = SubscribeKey
       THEN /\ selectedDot' = SubscribeId
            /\ selectedContent' = SubscribeKey
            /\ lookupMissed' = FALSE
       ELSE LET hit == FindInMainContent(key)
            IN  IF hit = <<>>
                THEN /\ UNCHANGED <<selectedDot, selectedContent>>
                     /\ lookupMissed' = TRUE
                ELSE /\ selectedDot' = CellId(hit[1] - 1, hit[2] - 1)
                     /\ selectedContent' = key
                     /\ lookupMissed' = FALSE
    /\ UNCHANGED <<mountSelection, hoveredDot, rippleDot, randomDot, isContentExpanded,
                   inactivityTimer, rippleIntervalRef, randomIntervalRef,
                   isAnimatingRef, usedDotsRef, animationCountRef, timers,
                   closureSelectedDot, navigation, history, pointerSinceArmed>>

\* mutant: hovering counts as activity and cancels the idle animations
setHoveredDot_CancelsAnimations(id) ==
    /\ UserEvent
    /\ lookupMissed' = FALSE
    /\ hoveredDot' = id
    /\ clearAllAnimations
    /\ UNCHANGED <<mountSelection, selectedDot, selectedContent,
                   isContentExpanded, usedDotsRef, animationCountRef,
                   closureSelectedDot, navigation, history>>

setHoveredDot(id) ==
    /\ UserEvent
    /\ lookupMissed' = FALSE
    /\ hoveredDot' = id
    /\ pointerSinceArmed' = (pointerSinceArmed \/ timers.inactivity > 0)
    /\ UNCHANGED <<mountSelection, selectedDot, selectedContent, rippleDot, randomDot,
                   isContentExpanded, inactivityTimer, rippleIntervalRef,
                   randomIntervalRef, isAnimatingRef, usedDotsRef,
                   animationCountRef, timers, closureSelectedDot, navigation,
                   history>>

\* the cleanup of the mount effect
Unmount ==
    /\ mounted
    /\ lookupMissed' = FALSE
    /\ mounted' = FALSE
    /\ clearAllAnimations
    /\ NoHistory
    /\ UNCHANGED <<config, view, mountSelection, inputsLeft, hoveredDot, selectedDot, selectedContent,
                   isContentExpanded, usedDotsRef, animationCountRef,
                   closureSelectedDot, navigation>>

\* --------------------------------------------------------- derived state
\* mutant: on a narrow viewport the clicked dot is hidden with the others
getDotDisplayState_HidesClickedDot(dotId) ==
    LET isSelected == selectedDot # Null
        isMobile == window # <<>> /\ window[1].innerWidth < NarrowBelow
    IN  [isHovered |-> hoveredDot = dotId,
         isRippling |-> rippleDot = dotId,
         isRandomlySelected |-> randomDot = dotId,
         isSelected |-> isSelected,
         isClickedDot |-> selectedDot = dotId,
         shouldHide |-> isMobile /\ isSelected]

getDotDisplayState(dotId) ==
    LET isHovered == hoveredDot = dotId
        isRippling == rippleDot = dotId
        isRandomlySelected == randomDot = dotId
        isSelected == selectedDot # Null
        isClickedDot == selectedDot = dotId
        isMobile == window # <<>> /\ window[1].innerWidth < NarrowBelow
        shouldHide == isMobile /\ isSelected /\ ~isClickedDot
    IN  [isHovered |-> isHovered,
         isRippling |-> isRippling,
         isRandomlySelected |-> isRandomlySelected,
         isSelected |-> isSelected,
         isClickedDot |-> isClickedDot,
         shouldHide |-> shouldHide]

\* Math.min(Math.max(0, Math.floor(p / (extent / n))), n - 1) for n >= 1 and
\* extent >= 0.  A cell of size 0 makes the quotient +Infinity, -Infinity or,
\* for p = 0, NaN; Math.max and Math.min clamp the infinities and return NaN
\* for NaN.
CellIndex(p, extent, n) ==
    IF extent = 0
    THEN IF p = 0 THEN NaN ELSE IF p > 0 THEN n - 1 ELSE 0
    ELSE LET q == (p * n) \div extent
         IN  IF q < 0 THEN 0 ELSE IF q > n - 1 THEN n - 1 ELSE q

handleGridMouseMove(e, gridRect, rows, rowOffset) ==
    /\ IF ~enableMouseTracking
       THEN UNCHANGED gridMousePosition
       ELSE LET x == e.clientX - gridRect.left
                y == e.clientY - gridRect.top
                col == CellIndex(x, gridRect.width, cols)
                row == JsPlus(CellIndex(y, gridRect.height, rows), rowOffset)
            IN  gridMousePosition' = <<[row |-> row, col |-> col]>>
    /\ pointerSinceArmed' = (pointerSinceArmed \/ timers.inactivity > 0)
    /\ UNCHANGED <<config, inputsLeft, mounted, reactState, inactivityTimer,
                   rippleIntervalRef, randomIntervalRef, isAnimatingRef,
                   usedDotsRef, animationCountRef, timers, closureSelectedDot,
                   navigation, history, mountSelection, lookupMissed, heldDot, lastCall,
                   enableMouseTracking, window, displayState>>

handleGridMouseLeave ==
    /\ gridMousePosition' = <<>>
    /\ UNCHANGED <<config, inputsLeft, mounted, reactState, inactivityTimer,
                   rippleIntervalRef, randomIntervalRef, isAnimatingRef,
                   usedDotsRef, animationCountRef, timers, closureSelectedDot,
                   navigation, history, mountSelection, lookupMissed, heldDot, lastCall,
                   pointerSinceArmed,
                   enableMouseTracking, window, displayState>>

\* a renderer calls getDotDisplayState(dotId)
Render(dotId) ==
    /\ displayState' =
          <<[dotId |-> dotId, hoveredDot |-> hoveredDot, rippleDot |-> rippleDot,
             randomDot |-> randomDot, selectedDot |-> selectedDot,
             window |-> window, result |-> getDotDisplayState(dotId)]>>
    /\ UNCHANGED <<config, inputsLeft, mounted, reactState, inactivityTimer,
                   rippleIntervalRef, randomIntervalRef, isAnimatingRef,
                   usedDotsRef, animationCountRef, timers, closureSelectedDot,
                   navigation, history, mountSelection, lookupMissed, heldDot, lastCall,
                   pointerSinceArmed,
                   enableMouseTracking, gridMousePosition, window>>

\* the user resizes the browser window; the hook listens to no resize event
Resize(width) ==
    /\ window # <<>>
    /\ window[1].innerWidth # width
    /\ window' = <<[innerWidth |-> width]>>
    /\ UNCHANGED <<config, inputsLeft, mounted, reactState, inactivityTimer,
                   rippleIntervalRef, randomIntervalRef, isAnimatingRef,
                   usedDotsRef, animationCountRef, timers, closureSelectedDot,
                   navigation, history, mountSelection, lookupMissed, heldDot, lastCall,
                   pointerSinceArmed,
                   enableMouseTracking, gridMousePosition, displayState>>

\* ------------------------------------------------------------------- inputs
Configs ==
    {cfg \in [cols : 1..MaxConfigSum, randomCount : 1..MaxConfigSum] :
        cfg.cols + cfg.randomCount <= MaxConfigSum}

InitialSlugs == {Null, SubscribeId, <<"j", "-", "d">>, <<"x">>}

DotClicks == ClickableDots(mainDots) \cup ClickableDots(overflowDots)

\* createArtistDot gives an artist's dot the id artist.slug
ArtistClicks == {AllArtists[i] : i \in 1..Len(AllArtists)}

EventKeys == {Null, SubscribeKey, <<"A", "b">>, <<"Z", "e">>, <<"Q">>}

HoverIds == {Null, <<"2", "-", "0">>}

\* ------------------------------------------------------------ specification
\* the state after the first render and its effects
Init ==
    /\ \E cfg \in Configs : cols = cfg.cols /\ randomCount = cfg.randomCount
    /\ inputsLeft = MaxInputs
    /\ mounted = TRUE
    /\ hoveredDot = Null
    /\ rippleDot = Null
    /\ randomDot = Null
    /\ rippleIntervalRef = "null"
    /\ randomIntervalRef = "null"
    /\ isAnimatingRef = FALSE
    /\ usedDotsRef = {}
    /\ animationCountRef = 0
    /\ navigation = [via |-> "none", to |-> Null]
    /\ rippleTrace = <<>>
    /\ lastPick = Null
    /\ picksShown = 0
    /\ nullsShown = 0
    /\ repeatedPick = FALSE
    /\ \E initialSlug \in InitialSlugs :
          LET reset == resetInactivityTimer(NoTimers, "null", FALSE, initialSlug, Null)
          IN  /\ selectedDot = initialSlug
              /\ selectedContent =
                    IF initialSlug = SubscribeId THEN SubscribeId
                    ELSE IF ~Truthy(initialSlug) THEN Null
                    ELSE IF \E i \in 1..Len(DataArtists) :
                               DataArtists[i].slug = ArtistSlugPrefix \o initialSlug
                    THEN initialSlug
                    ELSE Null
              /\ isContentExpanded = (initialSlug = SubscribeId)
              /\ timers = reset.timers
              /\ inactivityTimer = reset.inactivityTimer
              /\ closureSelectedDot = reset.closure
              /\ mountSelection = (initialSlug # Null)
    /\ lookupMissed = FALSE
    /\ pointerSinceArmed = FALSE
    /\ heldDot = <<>>
    /\ lastCall = <<>>
    /\ enableMouseTracking = FALSE
    /\ gridMousePosition = <<>>
    /\ window = <<[innerWidth |-> NarrowBelow]>>
    /\ displayState = <<>>

Next ==
    \/ InactivityFire
    \/ RippleTick
    \/ RandomTick
    \/ PauseFire
    \/ \E d \in DotClicks : handleDotClick(d.id, d.content[1].key)
    \/ \E a \in ArtistClicks : handleArtistDotClick(a.slug, a)
    \/ handleBackgroundClick
    \/ handleClose
    \/ \E key \in EventKeys : OpenGridCard(key)
    \/ \E id \in HoverIds : setHoveredDot(id)
    \/ Unmount

Spec == Init /\ [][Next]_vars

\* ------------------------------------------- the display state of the dots
\* getDotDisplayState is a function of hoveredDot, rippleDot, randomDot,
\* selectedDot and the window: the specification draws them from the values
\* they take and lets renders and resizes alternate.
SnapshotIds == {Null, <<"0", "-", "0">>, <<"2", "-", "0">>, SubscribeId}

DisplayIds == SnapshotIds \ {Null}

Widths == {NarrowBelow - 1, NarrowBelow, NarrowBelow + 1}

DisplayInit ==
    /\ hoveredDot \in SnapshotIds
    /\ rippleDot \in SnapshotIds
    /\ randomDot \in SnapshotIds
    /\ selectedDot \in SnapshotIds
    /\ window \in {<<>>} \cup {<<[innerWidth |-> w]>> : w \in Widths}
    /\ displayState = <<>>
    /\ cols = 1
    /\ randomCount = 1
    /\ inputsLeft = 0
    /\ mounted = TRUE
    /\ selectedContent = Null
    /\ isContentExpanded = FALSE
    /\ inactivityTimer = "null"
    /\ rippleIntervalRef = "null"
    /\ randomIntervalRef = "null"
    /\ isAnimatingRef = FALSE
    /\ usedDotsRef = {}
    /\ animationCountRef = 0
    /\ timers = NoTimers
    /\ closureSelectedDot = Null
    /\ navigation = [via |-> "none", to |-> Null]
    /\ rippleTrace = <<>>
    /\ lastPick = Null
    /\ picksShown = 0
    /\ nullsShown = 0
    /\ repeatedPick = FALSE
    /\ mountSelection = FALSE
    /\ lookupMissed = FALSE
    /\ pointerSinceArmed = FALSE
    /\ heldDot = <<>>
    /\ lastCall = <<>>
    /\ enableMouseTracking = FALSE
    /\ gridMousePosition = <<>>

DisplayNext ==
    \/ \E dotId \in DisplayIds : Render(dotId)
    \/ \E width \in Widths : Resize(width)

DisplaySpec == DisplayInit /\ [][DisplayNext]_vars

\* -------------------------------------------------------- mouse tracking
\* The mouse handlers read cols and enableMouseTracking and write
\* gridMousePosition, nothing else; the specification runs them alone.
\* The three sub-grids of the page, as their wrapper passes them.
SubGrids ==
    {[rows |-> 2, rowOffset |-> 0], [rows |-> 3, rowOffset |-> 2],
     [rows |-> 2, rowOffset |-> 5]}

Pointers == [clientX : 0..MaxCoord, clientY : 0..MaxCoord]

\* getBoundingClientRect of the grid element; an element that is not laid
\* out has width and height 0
GridRects == [left : {1}, top : {1}, width : 0..MaxExtent, height : 0..MaxExtent]

MouseInit ==
    /\ cols \in 1..MaxMouseCols
    /\ enableMouseTracking \in BOOLEAN
    /\ gridMousePosition = <<>>
    /\ randomCount = 1
    /\ inputsLeft = 0
    /\ mounted = TRUE
    /\ hoveredDot = Null
    /\ selectedDot = <<"x">>
    /\ selectedContent = Null
    /\ rippleDot = Null
    /\ randomDot = Null
    /\ isContentExpanded = FALSE
    /\ inactivityTimer = "null"
    /\ rippleIntervalRef = "null"
    /\ randomIntervalRef = "null"
    /\ isAnimatingRef = FALSE
    /\ usedDotsRef = {}
    /\ animationCountRef = 0
    /\ timers = NoTimers
    /\ closureSelectedDot = Null
    /\ navigation = [via |-> "none", to |-> Null]
    /\ rippleTrace = <<>>
    /\ lastPick = Null
    /\ picksShown = 0
    /\ nullsShown = 0
    /\ repeatedPick = FALSE
    /\ mountSelection = TRUE
    /\ lookupMissed = FALSE
    /\ pointerSinceArmed = FALSE
    /\ heldDot = <<>>
    /\ lastCall = <<>>
    /\ window = <<[innerWidth |-> NarrowBelow]>>
    /\ displayState = <<>>

MouseNext ==
    \/ \E e \in Pointers, gridRect \in GridRects, g \in SubGrids :
          handleGridMouseMove(e, gridRect, g.rows, g.rowOffset)
    \/ handleGridMouseLeave

MouseSpec == MouseInit /\ [][MouseNext]_vars

\* ------------------------------------------------------- the dot-id parsers
\* The parsers are functions of an id: the hook's getSelectedPosition and
\* useDotProps' selectedPosition read selectedDot, and parseDotId, which has
\* no caller in the repository, is given the same id.
MaxIdLen == 5

IdChars == {"0", "7", "-", "s"}

RECURSIVE StringsUpTo(_, _)
StringsUpTo(chars, n) ==
    IF n = 0 THEN {<<>>}
    ELSE LET shorter == StringsUpTo(chars, n - 1)
         IN  shorter \cup {Append(str, ch) : str \in shorter, ch \in chars}

\* the state of the hook that the entities and their parsers do not touch
hook == <<config, inputsLeft, mounted, hoveredDot, selectedContent, rippleDot,
          randomDot, isContentExpanded, inactivityTimer, rippleIntervalRef,
          randomIntervalRef, isAnimatingRef, usedDotsRef, animationCountRef,
          timers, closureSelectedDot, navigation, history, mountSelection,
          lookupMissed, pointerSinceArmed, enableMouseTracking,
          gridMousePosition, window, displayState>>

HookAtRest ==
    /\ cols = 1
    /\ randomCount = 1
    /\ inputsLeft = 0
    /\ mounted = TRUE
    /\ hoveredDot = Null
    /\ selectedContent = Null
    /\ rippleDot = Null
    /\ randomDot = Null
    /\ isContentExpanded = FALSE
    /\ inactivityTimer = "null"
    /\ rippleIntervalRef = "null"
    /\ randomIntervalRef = "null"
    /\ isAnimatingRef = FALSE
    /\ usedDotsRef = {}
    /\ animationCountRef = 0
    /\ timers = NoTimers
    /\ closureSelectedDot = Null
    /\ navigation = [via |-> "none", to |-> Null]
    /\ rippleTrace = <<>>
    /\ lastPick = Null
    /\ picksShown = 0
    /\ nullsShown = 0
    /\ repeatedPick = FALSE
    /\ mountSelection = FALSE
    /\ lookupMissed = FALSE
    /\ pointerSinceArmed = FALSE
    /\ enableMouseTracking = FALSE
    /\ gridMousePosition = <<>>
    /\ window = <<[innerWidth |-> NarrowBelow]>>
    /\ displayState = <<>>

Called(fn, args, result) ==
    /\ lastCall' = <<[fn |-> fn, args |-> args, done |-> TRUE, result |-> result]>>
    /\ UNCHANGED <<hook, selectedDot, heldDot>>

CallParseDotId ==
    /\ selectedDot # Null
    /\ Called("parseDotId", <<selectedDot>>, parseDotId(selectedDot))

CallGetSelectedPosition ==
    Called("getSelectedPosition", <<selectedDot>>, getSelectedPosition)

CallSelectedPosition ==
    Called("selectedPosition", <<selectedDot>>, selectedPosition(selectedDot))

ParserInit ==
    /\ HookAtRest
    /\ selectedDot \in StringsUpTo(IdChars, MaxIdLen) \cup {Null}
    /\ heldDot = <<>>
    /\ lastCall = <<>>

ParserNext ==
    \/ CallParseDotId
    \/ CallGetSelectedPosition
    \/ CallSelectedPosition

ParserSpec == ParserInit /\ [][ParserNext]_vars

\* ------------------------------------------------- the factory's functions
\* The functions of DotFactory and Vector2D read and write no state: the
\* specification calls them on arguments drawn from bounded sets.
MaxNameLen == 4

MaxColorRow == 6

MaxGridCoord == 3
\* the rows and columns of the positions an animate state is computed for
MaxOffsetCoord == 2
\* the largest rows and cols of a ripple or converge pattern
MaxPatternSide == 5
\* the largest number of cells randomPattern shuffles
MaxRandomCells == 4

MaxCellSize == 3

MaxGridSide == 2

MaxArtists == 4

MaxArtistCols == 3

\* letters of both cases, a digit, and a hyphen, a space and a dot for the
\* other characters
NameChars == {"A", "b", "1", "-", " ", "."}

\* an ordinary artist of the given name
ArtistNamed(name) ==
    [artistName |-> name, slug |-> ArtistSlugPrefix \o <<"s">>,
     isSpecialLink |-> FALSE, linkType |-> Null, url |-> Null]

\* a call that was issued and has not returned
Pending(fn, args) == <<[fn |-> fn, args |-> args, done |-> FALSE, result |-> <<>>]>>

\* the pending call of fn returns result
Returns(fn, result) ==
    /\ lastCall[1].fn = fn
    /\ ~lastCall[1].done
    /\ lastCall' = <<[lastCall[1] EXCEPT !.done = TRUE, !.result = result]>>
    /\ UNCHANGED <<hook, selectedDot, heldDot>>

\* the slug handleArtistDotClick computes for the route it pushes
CallArtistSlug == Returns("artistSlug", ArtistSlug(lastCall[1].args[1]))

CallCreateArtistDot ==
    Returns("createArtistDot",
            createArtistDot(0, 0, ArtistNamed(lastCall[1].args[1])))

CallGetPositionColor ==
    Returns("getPositionColor",
            getPositionColor(lastCall[1].args[1], lastCall[1].args[2],
                             DefaultTotalCols))

GridPositions == [row : 0..MaxGridCoord, col : 0..MaxGridCoord]

OffsetPositions == [row : 0..MaxOffsetCoord, col : 0..MaxOffsetCoord]

CallRoundTrip ==
    LET p == lastCall[1].args[1]
        cellSize == lastCall[1].args[2]
        gap == lastCall[1].args[3]
    IN  Returns("worldToGrid",
                worldToGrid(gridToWorld(p, cellSize, gap), cellSize, gap))

\* the cells of a content grid: a key or the empty string
ContentCells == {<<>>, <<"A", "b">>}

RECURSIVE SeqsUpTo(_, _)
SeqsUpTo(S, n) ==
    IF n = 0 THEN {<<>>}
    ELSE LET shorter == SeqsUpTo(S, n - 1)
         IN  shorter \cup {Append(q, x) : q \in shorter, x \in S}

GridPrefixes == {Null, <<"o", "v", "e", "r", "f", "l", "o", "w">>}

ContentTypes == {"undefined", "project"}

CallCreateDotGrid ==
    Returns("createDotGrid",
            createDotGrid(lastCall[1].args[1], lastCall[1].args[2],
                          lastCall[1].args[3], lastCall[1].args[4]))

CallCreateArtistGrid ==
    Returns("createArtistGrid",
            createArtistGrid(lastCall[1].args[1], lastCall[1].args[2]))

\* artists whose slugs are spelled like the id of a cell
ArtistCellSlug ==
    [artistName |-> <<"C">>, slug |-> <<"2", "-", "0">>,
     isSpecialLink |-> FALSE, linkType |-> Null, url |-> Null]

ArtistOverflowSlug ==
    [artistName |-> <<"O">>,
     slug |-> <<"o", "v", "e", "r", "f", "l", "o", "w", "-", "5", "-", "0">>,
     isSpecialLink |-> FALSE, linkType |-> Null, url |-> Null]

\* data.artists: up to two artists, no slug twice and none 'Subscribe'
ArtistData ==
    LET pool == {ArtistJD, ArtistInstagram, ArtistCellSlug, ArtistOverflowSlug}
    IN  {<<>>} \cup {<<a>> : a \in pool}
           \cup {pair \in pool \X pool : pair[1] # pair[2]}

MainContents ==
    {<<>>, DataMainContent, << <<<<"A", "b">>, <<>>>>, <<<<>>, <<"C", "d">>>> >>}

OverflowContents == {<<>>, DataOverflowContent}

CallUseDotGrid ==
    Returns("useDotGrid",
            useDotGridEntities(lastCall[1].args[1], lastCall[1].args[2]))

\* a call of one of the functions is pending: artist names of up to
\* MaxNameLen characters, the rows 0..MaxColorRow of the five columns, grid
\* positions and integer sizes, content grids of up to MaxGridSide rows of up
\* to MaxGridSide cells, lists of up to MaxArtists artists
FactoryInit ==
    /\ HookAtRest
    /\ selectedDot = Null
    /\ heldDot = <<>>
    /\ \/ \E name \in StringsUpTo(NameChars, MaxNameLen) :
             lastCall = Pending("artistSlug", <<name>>)
       \/ \E name \in StringsUpTo(NameChars, MaxNameLen) :
             lastCall = Pending("createArtistDot", <<name>>)
       \/ \E row \in 0..MaxColorRow, col \in 0..(DefaultTotalCols - 1) :
             lastCall = Pending("getPositionColor", <<row, col>>)
       \/ \E p \in GridPositions, cellSize \in 1..MaxCellSize,
             gap \in (-MaxCellSize)..MaxCellSize :
             lastCall = Pending("worldToGrid", <<p, cellSize, gap>>)
       \/ \E gridContent \in SeqsUpTo(SeqsUpTo(ContentCells, MaxGridSide),
                                      MaxGridSide),
             rowOffset \in {0, MainRowOffset, OverflowRowOffset},
             prefix \in GridPrefixes, contentType \in ContentTypes :
             lastCall = Pending("createDotGrid",
                                <<gridContent, rowOffset, prefix, contentType>>)
       \/ \E artists \in SeqsUpTo({ArtistJD, ArtistInstagram}, MaxArtists),
             c \in 1..MaxArtistCols :
             lastCall = Pending("createArtistGrid", <<artists, c>>)
       \/ \E artists \in ArtistData, mainContent \in MainContents,
             overflowContent \in OverflowContents, c \in 1..MaxArtistCols :
             lastCall = Pending("useDotGrid",
                                <<[artists |-> artists,
                                   mainContent |-> mainContent,
                                   overflowContent |-> overflowContent], c>>)

FactoryNext ==
    \/ CallArtistSlug
    \/ CallCreateArtistDot
    \/ CallGetPositionColor
    \/ CallRoundTrip
    \/ CallCreateDotGrid
    \/ CallCreateArtistGrid
    \/ CallUseDotGrid

FactorySpec == FactoryInit /\ [][FactoryNext]_vars

\* ------------------------------------------------------ the life of a dot
\* A caller creates a dot with one of the four factory functions and then
\* replaces it by the result of updateDotState, updateDotVisual or
\* collectDot, any number of times.
DotStates ==
    {"idle", "hovered", "selected", "rippling", "highlighted", "animating",
     "collected", "hidden"}

CollectionSources == {<<"i", "n", "t", "e", "r", "a", "c", "t", "i", "o", "n">>,
                      <<"g", "i", "f", "t", "e", "d">>}

SessionIds == {<<"u", "1">>}

\* the corners of the page's grid
DotPositions == {[row |-> 0, col |-> 0], [row |-> 5, col |-> 4]}

\* Partial<DotVisualProps>: the properties an update gives
VisualUpdates == <<[scale |-> 2], [opacity |-> 0, glowIntensity |-> 1]>>

\* inputs of a direct call of createDot: without content and with a color,
\* and with content and a value
DirectInputs ==
    <<[id |-> <<"x">>, gridPosition |-> [row |-> 0, col |-> 0],
       content |-> <<>>,
       color |-> [base |-> <<"#", "0", "0", "0", "0", "0", "0">>],
       value |-> <<>>],
      [id |-> <<"y">>, gridPosition |-> [row |-> 1, col |-> 1],
       content |-> <<[key |-> <<"A", "b">>, label |-> <<"A", "b">>,
                      type |-> "content", url |-> Null]>>,
       color |-> NoColor,
       value |-> <<3>>]>>

Held(d) ==
    /\ heldDot' = <<d>>
    /\ UNCHANGED <<hook, selectedDot, lastCall>>

CreateDot(input) ==
    /\ heldDot' = <<createDot(input)>>
    /\ UNCHANGED <<hook, selectedDot, lastCall>>

CreateGridDot(row, col, contentKey, prefix, optionsType) ==
    /\ heldDot' = <<createGridDot(row, col, contentKey, prefix, optionsType)>>
    /\ UNCHANGED <<hook, selectedDot, lastCall>>

CreateArtistDot(row, col, artist) ==
    /\ heldDot' = <<createArtistDot(row, col, artist)>>
    /\ UNCHANGED <<hook, selectedDot, lastCall>>

CreateEmptyDot(row, col, prefix) ==
    /\ heldDot' = <<createEmptyDot(row, col, prefix)>>
    /\ UNCHANGED <<hook, selectedDot, lastCall>>

UpdateDotState(newState) ==
    /\ heldDot # <<>>
    /\ Held(updateDotState(heldDot[1], newState))

UpdateDotVisual(visual) ==
    /\ heldDot # <<>>
    /\ Held(updateDotVisual(heldDot[1], visual))

CollectDot(sessionId, source) ==
    /\ heldDot # <<>>
    /\ Held(collectDot(heldDot[1], sessionId, source))

DotInit ==
    /\ HookAtRest
    /\ selectedDot = Null
    /\ heldDot = <<>>
    /\ lastCall = <<>>

DotNext ==
    \/ \E i \in 1..Len(DirectInputs) : CreateDot(DirectInputs[i])
    \/ \E p \in DotPositions, prefix \in GridPrefixes :
          CreateGridDot(p.row, p.col, <<"A", "b">>, prefix, "undefined")
    \/ \E i \in 1..Len(AllArtists) : CreateArtistDot(0, 0, AllArtists[i])
    \/ \E p \in DotPositions, prefix \in GridPrefixes :
          CreateEmptyDot(p.row, p.col, prefix)
    \/ \E newState \in DotStates : UpdateDotState(newState)
    \/ \E i \in 1..Len(VisualUpdates) : UpdateDotVisual(VisualUpdates[i])
    \/ \E sessionId \in SessionIds, source \in CollectionSources :
          CollectDot(sessionId, source)

DotSpec == DotInit /\ [][DotNext]_vars

\* ------------------------------------------------- the animation helpers
\* the display flags of a dot crossed with its position and the selected
\* position, which is <<>> when undefined
AnimateInputs ==
    {<<[isSelected |-> f[1], isClickedDot |-> f[2], isHovered |-> f[3],
        isRippling |-> f[4], isRandomlySelected |-> f[5], shouldHide |-> f[6]],
       p[1], p[2]>> :
        f \in [1..6 -> BOOLEAN],
        p \in OffsetPositions \X ({<<>>} \cup {<<sp>> : sp \in OffsetPositions})}

CallGetDotAnimateState ==
    Returns("getDotAnimateState",
            getDotAnimateState(lastCall[1].args[2], lastCall[1].args[3],
                               lastCall[1].args[1]))

\* one render of a Dot component with the props of the call
RenderDot ==
    Returns("Dot",
            Dot_animate(lastCall[1].args[1]
                        @@ [currentPosition |-> lastCall[1].args[2],
                            selectedPosition |-> lastCall[1].args[3]]))

CallRipplePattern ==
    Returns("ripplePattern",
            ripplePattern(lastCall[1].args[1], lastCall[1].args[2]))

\* Math.random decides which of the shuffles is yielded
CallRandomPattern ==
    /\ lastCall[1].fn = "randomPattern"
    /\ \E yields \in randomPattern(lastCall[1].args[1], lastCall[1].args[2],
                                   lastCall[1].args[3]) :
          Returns("randomPattern", yields)

CallConvergePattern ==
    Returns("convergePattern",
            convergePattern(lastCall[1].args[1], lastCall[1].args[2],
                            lastCall[1].args[3]))

AnimationsInit ==
    /\ HookAtRest
    /\ selectedDot = Null
    /\ heldDot = <<>>
    /\ \/ \E input \in AnimateInputs :
             lastCall = Pending("getDotAnimateState", input)
       \/ \E input \in AnimateInputs : lastCall = Pending("Dot", input)
       \/ \E r \in 0..MaxPatternSide, c \in 0..MaxPatternSide :
             lastCall = Pending("ripplePattern", <<r, c>>)
       \/ \E r \in 0..MaxRandomCells, c \in 0..MaxRandomCells,
             count \in {<<>>} \cup {<<n>> : n \in 0..(MaxRandomCells + 1)} :
             /\ r * c <= MaxRandomCells
             /\ lastCall = Pending("randomPattern", <<r, c, count>>)
       \/ \E r \in 0..MaxPatternSide, c \in 0..MaxPatternSide,
             center \in [row : 0..MaxPatternSide, col : 0..MaxPatternSide] :
             lastCall = Pending("convergePattern", <<r, c, center>>)

AnimationsNext ==
    \/ CallGetDotAnimateState
    \/ RenderDot
    \/ CallRipplePattern
    \/ CallRandomPattern
    \/ CallConvergePattern

AnimationsSpec == AnimationsInit /\ [][AnimationsNext]_vars

\* =================================================================== claims
\* the ids a click (handleDotClick, handleArtistDotClick) selects; no other
\* handler selects one of them
ClickedDotIds ==
    {d.id : d \in DotClicks} \cup {a.slug : a \in {x \in ArtistClicks : ~x.isSpecialLink}}

\* ids `${row}-${col}` of the cells the idle animations run over
ValidCellIds(c) == {CellId(i, j) : i \in 0..(NumRows - 1), j \in 0..(c - 1)}

\* a step that ends an idle animation by running to completion
AnimationCompletes ==
    /\ RippleTick \/ RandomTick
    /\ isAnimatingRef
    /\ ~isAnimatingRef'

\* C1: immediately after handleDotClick(id, contentKey), selectedDot = id,
\* selectedContent = contentKey, rippleDot and randomDot are null and no
\* inactivity, ripple or random-interval timer is armed.
C1_ClickSelectsAndDisarms ==
    [][\A d \in DotClicks :
          handleDotClick(d.id, d.content[1].key) =>
             /\ selectedDot' = d.id
             /\ selectedContent' = d.content[1].key
             /\ rippleDot' = Null
             /\ randomDot' = Null
             /\ timers'.inactivity = 0
             /\ timers'.ripple = 0
             /\ timers'.random = 0]_vars

\* C1 witness: a dot was clicked in the pause between two random picks (the
\* pause is still pending), and the click stopped the sequence.
C1_Witness ==
    /\ selectedDot = <<"2", "-", "0">>
    /\ selectedContent = <<"A", "b">>
    /\ timers.pause > 0
    /\ usedDotsRef # {}
    /\ timers.random = 0

\* C2: while a selection made by a click stands, rippleDot and randomDot stay
\* null: no callback scheduled before the click shows a dot after it.
C2_NoGhostAfterClick ==
    selectedDot \in ClickedDotIds => rippleDot = Null /\ randomDot = Null

\* C3: after the unmount cleanup no callback of the instance is pending, so
\* none runs: inactivity, ripple, random interval or pause between picks.
C3_UnmountClearsEveryTimer ==
    ~mounted => timers = NoTimers

\* C4: the inactivity timer is armed neither while an idle animation is
\* active nor while a dot is selected.
C4_InactivityOnlyInIdleWatch ==
    timers.inactivity > 0 => ~isAnimatingRef /\ selectedDot = Null

\* C5: at most one of the ripple interval and the random interval is armed.
C5_OneAnimationTimer ==
    timers.ripple + timers.random <= 1

\* C5 witness: a random interval is armed after a ripple that ran to
\* completion earlier in the run.
C5_Witness ==
    /\ timers.random = 1
    /\ rippleTrace # <<>>
    /\ rippleTrace[Len(rippleTrace)] = Null

\* C6: closing a selected card (handleClose, or handleBackgroundClick with a
\* card open) clears selectedDot and selectedContent, collapses the card and
\* leaves the inactivity timer armed.
C6_CloseRearmsInactivity ==
    [][(/\ handleClose \/ handleBackgroundClick
        /\ Truthy(selectedDot)
        /\ Truthy(selectedContent)
        /\ ~isAnimatingRef)
       => (/\ selectedDot' = Null
           /\ selectedContent' = Null
           /\ isContentExpanded' = FALSE
           /\ timers'.inactivity > 0)]_vars

\* C7: when an idle animation runs to completion with no dot selected, the
\* machine is back in Idle-watch with the inactivity timer armed.
C7_CompletionRearmsInactivity ==
    [][(AnimationCompletes /\ mounted /\ selectedDot = Null)
       => timers'.inactivity > 0]_vars

\* the cells of a grid of c columns in row-major order, then null
RippleOrder(c) ==
    [i \in 1..(NumRows * c) |-> CellId((i - 1) \div c, (i - 1) % c)] \o <<Null>>

\* C8: a ripple shows (0,0), (0,1), ... row by row up to the last cell, one
\* cell per step, none skipped or repeated, then null once, and stops.
C8_RippleRowMajor ==
    /\ Len(rippleTrace) <= Len(RippleOrder(cols))
    /\ rippleTrace = SubSeq(RippleOrder(cols), 1, Len(rippleTrace))
    /\ rippleTrace # <<>> => rippleDot = rippleTrace[Len(rippleTrace)]
    /\ (rippleTrace # <<>> /\ rippleDot = Null) => timers.ripple = 0

\* C8 witness: a ripple over a grid of several columns has run to its end.
C8_Witness ==
    /\ cols >= 2
    /\ rippleTrace = RippleOrder(cols)
    /\ rippleDot = Null

\* C9: no random sequence shows the same id in two consecutive picks, and
\* every id shown is a valid cell id.
C9_NoConsecutiveRepeat ==
    /\ ~repeatedPick
    /\ randomDot # Null => randomDot \in ValidCellIds(cols)

\* C10: a random sequence shows a null after every pick, and once it has run
\* to completion it has shown exactly randomCount picks, randomDot is null,
\* the random timer is disarmed, isAnimating is false and the used-set empty.
C10_RandomRunsToCount ==
    /\ randomIntervalRef = "live" =>
          /\ picksShown <= randomCount
          /\ nullsShown = IF randomDot = Null THEN picksShown ELSE picksShown - 1
    /\ (picksShown > 0 /\ randomIntervalRef = "null") =>
          /\ picksShown = randomCount
          /\ nullsShown = randomCount
          /\ randomDot = Null
          /\ timers.random = 0
          /\ usedDotsRef = {}
          /\ rippleIntervalRef = "null" => ~isAnimatingRef

\* C10 witness: a sequence of several picks has run to completion.
C10_Witness ==
    /\ randomCount >= 2
    /\ picksShown = randomCount
    /\ nullsShown = randomCount
    /\ randomIntervalRef = "null"

\* C11: after a mount with no initial slug and no user input the inactivity
\* timeout starts exactly one idle animation, and either a ripple or a random
\* sequence can be the one; after a mount with a dot selected no idle
\* animation starts as long as no close has cleared the selection.
C11_MountIdleAnimation ==
    /\ (mounted /\ inputsLeft = MaxInputs /\ ~mountSelection) =>
          IF timers.inactivity > 0
          THEN /\ ~isAnimatingRef
               /\ rippleTrace = <<>>
               /\ picksShown = 0
               /\ ENABLED (InactivityFire /\ rippleDot' # Null)
               /\ ENABLED (InactivityFire /\ randomDot' # Null)
          ELSE /\ (rippleTrace # <<>>) # (picksShown > 0)
               /\ timers.ripple + timers.random =
                     IF isAnimatingRef THEN 1 ELSE 0
    /\ mountSelection =>
          /\ ~isAnimatingRef
          /\ timers.ripple = 0
          /\ timers.random = 0
          /\ rippleDot = Null
          /\ randomDot = Null
          /\ rippleTrace = <<>>
          /\ picksShown = 0

\* C11 witness: with no initial slug and no input, the timeout has fired and
\* started a random sequence, now at its second pick.
C11_Witness ==
    /\ mounted
    /\ inputsLeft = MaxInputs
    /\ ~mountSelection
    /\ timers.inactivity = 0
    /\ isAnimatingRef
    /\ picksShown = 2
    /\ rippleTrace = <<>>

\* the content keys of the main grid, and the keys an open-grid-card event
\* can resolve
MainContentKeys == {d.content[1].key : d \in ClickableDots(mainDots)}

KnownKey(key) == key = SubscribeKey \/ key \in MainContentKeys

\* C12: an open-grid-card event with a content key of the main grid selects
\* the id of the main-grid dot bound to that key, with the key as content;
\* the key 'Subscribe' selects the subscribe card.
C12_EventSelectsDotOfKey ==
    [][\A key \in EventKeys :
          OpenGridCard(key) =>
             /\ key \in MainContentKeys =>
                   /\ \E d \in ClickableDots(mainDots) :
                         d.content[1].key = key /\ selectedDot' = d.id
                   /\ selectedContent' = key
             /\ key = SubscribeKey =>
                   /\ selectedDot' = SubscribeId
                   /\ selectedContent' = SubscribeKey]_vars

\* C13: an open-grid-card event with a known key leaves the hook as
\* handleDotClick(resolved id, key) leaves it: the key selected, rippleDot
\* and randomDot null, the inactivity, ripple and random timers cancelled.
C13_EventIsAClick ==
    [][\A key \in EventKeys :
          (OpenGridCard(key) /\ KnownKey(key)) =>
             /\ selectedContent' = key
             /\ rippleDot' = Null
             /\ randomDot' = Null
             /\ timers'.inactivity = 0
             /\ timers'.ripple = 0
             /\ timers'.random = 0
             /\ inactivityTimer' = "null"
             /\ rippleIntervalRef' = "null"
             /\ randomIntervalRef' = "null"
             /\ isAnimatingRef' = FALSE]_vars

\* C14: an open-grid-card event whose key is missing or is in no cell of the
\* main content grid changes no state variable and no timer.
C14_LookupMissIsNoOp ==
    [][\A key \in EventKeys :
          (OpenGridCard(key) /\ ~KnownKey(key)) =>
             UNCHANGED <<reactState, gridMousePosition, inactivityTimer,
                         rippleIntervalRef, randomIntervalRef, isAnimatingRef,
                         usedDotsRef, animationCountRef, timers,
                         closureSelectedDot, navigation, mounted>>]_vars

\* C14 witness: a lookup missed in the middle of a random sequence, which
\* goes on.
C14_Witness ==
    /\ lookupMissed
    /\ timers.random = 1
    /\ randomDot # Null
    /\ isAnimatingRef

\* the dots of the artist grid
artistDots == flattenDotGrid(createArtistGrid(AllArtists, cols))

\* the action a special link stands for
LinkAction(artist) ==
    IF artist.linkType = SubscribeId
    THEN [via |-> "push", to |-> SubscribeRoute]
    ELSE [via |-> "open", to |-> artist.url]

\* C15: handleArtistDotClick with a special-link artist performs the link's
\* action and leaves selectedDot and selectedContent as they were.
C15_SpecialLinkKeepsSelection ==
    [][\A a \in ArtistClicks :
          (handleArtistDotClick(a.slug, a) /\ a.isSpecialLink) =>
             /\ navigation' = LinkAction(a)
             /\ UNCHANGED <<selectedDot, selectedContent>>]_vars

\* C15 witness: the Instagram link was opened and a card is selected.
C15_Witness ==
    /\ navigation = [via |-> "open", to |-> ArtistInstagram.url]
    /\ selectedDot = <<"2", "-", "0">>
    /\ selectedContent = <<"A", "b">>

C17_HoverChangesHoverOnly ==
    [][\A id \in HoverIds :
          setHoveredDot(id) =>
             /\ hoveredDot' = id
             /\ UNCHANGED <<rippleDot, randomDot, selectedDot, selectedContent,
                            usedDotsRef, animationCountRef, timers,
                            inactivityTimer, rippleIntervalRef,
                            randomIntervalRef, isAnimatingRef>>]_vars

\* C17 witness: a dot is hovered while a ripple, past its first cell, goes on.
C17_Witness ==
    /\ hoveredDot = <<"2", "-", "0">>
    /\ timers.ripple = 1
    /\ isAnimatingRef
    /\ Len(rippleTrace) >= 2
    /\ rippleDot # Null

\* C18: getDotDisplayState(id) returns isHovered = (hoveredDot = id),
\* isRippling = (rippleDot = id), isRandomlySelected = (randomDot = id),
\* isSelected = (selectedDot # null), isClickedDot = (selectedDot = id) and
\* shouldHide = narrow viewport and isSelected and not isClickedDot, narrow
\* meaning a width below 1024; so at most one id is the clicked dot, and a
\* hidden dot is never the clicked one.
C18_DisplayStateFormulas ==
    /\ displayState # <<>> =>
          LET call == displayState[1]
              r == call.result
              narrow == call.window # <<>> /\ call.window[1].innerWidth < 1024
          IN  /\ r.isHovered = (call.hoveredDot = call.dotId)
              /\ r.isRippling = (call.rippleDot = call.dotId)
              /\ r.isRandomlySelected = (call.randomDot = call.dotId)
              /\ r.isSelected = (call.selectedDot # Null)
              /\ r.isClickedDot = (call.selectedDot = call.dotId)
              /\ r.shouldHide = (narrow /\ r.isSelected /\ ~r.isClickedDot)
              /\ r.shouldHide => ~r.isClickedDot
    /\ Cardinality({id \in DisplayIds : getDotDisplayState(id).isClickedDot}) <= 1

\* C18 witness: on a viewport one pixel below the threshold a dot other than
\* the selected one was rendered, hidden, while it was hovered.
C18_Witness ==
    /\ displayState # <<>>
    /\ displayState[1].window = <<[innerWidth |-> 1023]>>
    /\ displayState[1].result.shouldHide
    /\ displayState[1].result.isHovered
    /\ ~displayState[1].result.isClickedDot

\* C19: two calls of getDotDisplayState with the same id and the same
\* hoveredDot, rippleDot, randomDot and selectedDot return equal results, and
\* a call changes no state of the hook.
C19_DisplayStatePure ==
    [][\A dotId \in DisplayIds :
          (/\ Render(dotId)
           /\ displayState # <<>>
           /\ displayState[1].dotId = dotId
           /\ displayState[1].hoveredDot = hoveredDot
           /\ displayState[1].rippleDot = rippleDot
           /\ displayState[1].randomDot = randomDot
           /\ displayState[1].selectedDot = selectedDot)
          => /\ displayState'[1].result = displayState[1].result
             /\ UNCHANGED <<reactState, gridMousePosition, timers>>]_vars

\* C20: with mouse tracking enabled every handleGridMouseMove sets
\* gridMousePosition to a cell with col in 0..cols-1 and row in
\* rowOffset..rowOffset+rows-1, wherever the pointer is; the row ranges of the
\* three sub-grids are disjoint; handleGridMouseLeave sets it to null; with
\* tracking disabled a mouse move leaves it unchanged.
C20_MousePositionInGrid ==
    [][/\ \A e \in Pointers, gridRect \in GridRects, g \in SubGrids :
             handleGridMouseMove(e, gridRect, g.rows, g.rowOffset) =>
                IF enableMouseTracking
                THEN /\ gridMousePosition' # <<>>
                     /\ gridMousePosition'[1].col \in 0..(cols - 1)
                     /\ gridMousePosition'[1].row \in
                           g.rowOffset..(g.rowOffset + g.rows - 1)
                ELSE UNCHANGED gridMousePosition
       /\ handleGridMouseLeave => gridMousePosition' = <<>>
       /\ \A g \in SubGrids : \A h \in SubGrids \ {g} :
             (g.rowOffset..(g.rowOffset + g.rows - 1))
                \cap (h.rowOffset..(h.rowOffset + h.rows - 1)) = {}]_vars

\* C21: a dot-id parser returns no position, and never a position whose row
\* or col is not a number, when the id does not parse into a row and a col
C21_ParsersGiveNoPosition ==
    lastCall # <<>> =>
        LET result == lastCall[1].result
        IN  result = <<>> \/ (result[1].row # NaN /\ result[1].col # NaN)

\* the same of the two parsers the hooks export
C21_HookParsersGiveNoPosition ==
    (lastCall # <<>> /\ lastCall[1].fn # "parseDotId") =>
        LET result == lastCall[1].result
        IN  result = <<>> \/ (result[1].row # NaN /\ result[1].col # NaN)

\* C22: after handleDotClick(d.id, key) on a dot d of the main or the
\* overflow grid, getSelectedPosition() is d.gridPosition, the row offset
\* included and the prefix ignored; with nothing selected it is undefined
C22_SelectedPositionIsGridPosition ==
    [][/\ \A d \in DotClicks :
             handleDotClick(d.id, d.content[1].key) =>
                SelectedPosition(selectedDot') = <<d.gridPosition>>
       /\ selectedDot' = Null => SelectedPosition(selectedDot') = <<>>]_vars

\* C22 witness: the dot of the overflow grid, whose id has a prefix and whose
\* row is the array row 0 plus the offset, was clicked and its position is
\* returned
C22_Witness ==
    /\ selectedDot = <<"o", "v", "e", "r", "f", "l", "o", "w", "-", "5", "-", "0">>
    /\ selectedContent = <<"Z", "e">>
    /\ getSelectedPosition = <<[row |-> OverflowRowOffset, col |-> 0]>>

\* a letter of either case or a digit
C23_IsAlphanumeric(ch) ==
    \/ IsDigit(ch)
    \/ \E i \in 1..26 : UpperChars[i] = ch \/ LowerChars[i] = ch

\* the alphanumerics of name from position i on in lower case, with one
\* hyphen between two of them that are not adjacent in name; prev is the
\* position of the alphanumeric before i, 0 when there is none
RECURSIVE C23_Expected(_, _, _)
C23_Expected(name, i, prev) ==
    IF i > Len(name) THEN <<>>
    ELSE IF C23_IsAlphanumeric(name[i])
    THEN (IF prev # 0 /\ prev < i - 1 THEN <<"-">> ELSE <<>>)
         \o <<ToLowerChar(name[i])>> \o C23_Expected(name, i + 1, i)
    ELSE C23_Expected(name, i + 1, prev)

C23_WellFormed(slug) ==
    /\ \A i \in 1..Len(slug) :
          slug[i] = "-" \/ IsDigit(slug[i]) \/ \E k \in 1..26 : LowerChars[k] = slug[i]
    /\ slug # <<>> => slug[1] # "-" /\ slug[Len(slug)] # "-"
    /\ \A i \in 1..(Len(slug) - 1) : ~(slug[i] = "-" /\ slug[i + 1] = "-")

\* C23: the slug of an artist name holds only lowercase letters, digits and
\* hyphens, neither starts nor ends with a hyphen and has no two hyphens in
\* a row; every run of other characters between two alphanumerics becomes
\* one hyphen; slugging a slug changes nothing; and the route createArtistDot
\* stores ends in the slug handleArtistDotClick computes
C23_SlugIsCanonical ==
    /\ (lastCall[1].done /\ lastCall[1].fn = "artistSlug") =>
          LET name == lastCall[1].args[1]
              slug == lastCall[1].result
          IN  /\ C23_WellFormed(slug)
              /\ slug = C23_Expected(name, 1, 0)
              /\ ArtistSlug(slug) = slug
    /\ (lastCall[1].done /\ lastCall[1].fn = "createArtistDot") =>
          LET name == lastCall[1].args[1]
              made == lastCall[1].result
          IN  made.content[1].url = ArtistRoutePrefix \o C23_Expected(name, 1, 0)

\* C23 witness: the name ".A b" was slugged to "a-b"
C23_Witness ==
    /\ lastCall[1].done
    /\ lastCall[1].fn = "artistSlug"
    /\ lastCall[1].args[1] = <<".", "A", " ", "b">>
    /\ lastCall[1].result = <<"a", "-", "b">>

\* the k-th of the red, green and blue components of a color
C24_Component(color, k) == ParseHex(SubSeq(color, 2 * k, 2 * k + 1), 0)

C24_Between(a, x, b) == (a <= x /\ x <= b) \/ (b <= x /\ x <= a)

\* C24: for a row in 0..4 and a col in 0..4 every component of
\* getPositionColor(row, col) lies between the components of the primary
\* and the secondary color of the row's zone, is the primary's at col 0 and
\* the secondary's at col 4; a row of 5 or more gets the color of row 4
C24_PositionColorInZone ==
    (lastCall[1].done /\ lastCall[1].fn = "getPositionColor") =>
        LET row == lastCall[1].args[1]
            col == lastCall[1].args[2]
            color == lastCall[1].result
        IN  /\ Len(color) = 7
            /\ color[1] = "#"
            /\ row <= 4 =>
                  LET zone == ROW_COLOR_ZONES[row + 1]
                  IN  \A k \in 1..3 :
                         /\ C24_Between(C24_Component(zone.primary, k),
                                        C24_Component(color, k),
                                        C24_Component(zone.secondary, k))
                         /\ col = 0 => C24_Component(color, k)
                                          = C24_Component(zone.primary, k)
                         /\ col = 4 => C24_Component(color, k)
                                          = C24_Component(zone.secondary, k)
            /\ row >= 5 => color = getPositionColor(4, col, DefaultTotalCols)

\* C24 witness: the middle of row 2, half way from dustyRose #D4A5A5 to
\* dawnGlow #FFB7A5, is #eaaea5 (red 233.5 rounded up)
C24_Witness ==
    /\ lastCall[1].done
    /\ lastCall[1].fn = "getPositionColor"
    /\ lastCall[1].args = <<2, 2>>
    /\ lastCall[1].result = <<"#", "e", "a", "a", "e", "a", "5">>

\* C25: for every integer grid position p, every cellSize > 0 and every gap,
\* worldToGrid(gridToWorld(p, cellSize, gap), cellSize, gap) is p
C25_RoundTrip ==
    (lastCall[1].done /\ lastCall[1].fn = "worldToGrid") =>
        lastCall[1].result = lastCall[1].args[1]

\* the same for the integer sizes whose sum, the pitch of the grid, is not 0
C25_RoundTripNonZeroPitch ==
    (/\ lastCall[1].done
     /\ lastCall[1].fn = "worldToGrid"
     /\ lastCall[1].args[2] + lastCall[1].args[3] # 0) =>
        lastCall[1].result = lastCall[1].args[1]

\* C26: a dot is collectible exactly when it has content, as it is created
\* and after every update; an empty dot has value 0 and is not collectible
C26_CollectibleIffContent ==
    [][/\ heldDot' # <<>> =>
             (heldDot'[1].collection.collectible <=> heldDot'[1].content # <<>>)
       /\ \A p \in DotPositions, prefix \in GridPrefixes :
             CreateEmptyDot(p.row, p.col, prefix) =>
                /\ heldDot'[1].content = <<>>
                /\ heldDot'[1].collection.value = 0
                /\ ~heldDot'[1].collection.collectible]_vars

\* C26 witness: an empty dot was created, shown, and is not collectible
C26_Witness ==
    /\ heldDot # <<>>
    /\ heldDot[1].content = <<>>
    /\ heldDot[1].collection.value = 0
    /\ ~heldDot[1].collection.collectible
    /\ heldDot[1].state = "hovered"
    /\ heldDot[1].visual.scale = 2

\* C27: updateDotState(d, s) gives state s and previousState d.state, and
\* collectDot(d, ...) gives state 'collected' and previousState d.state
C27_TransitionRecordsPriorState ==
    [][/\ \A newState \in DotStates :
             UpdateDotState(newState) =>
                /\ heldDot'[1].state = newState
                /\ heldDot'[1].previousState = heldDot[1].state
       /\ \A sessionId \in SessionIds, source \in CollectionSources :
             CollectDot(sessionId, source) =>
                /\ heldDot'[1].state = "collected"
                /\ heldDot'[1].previousState = heldDot[1].state]_vars

\* C27 witness: a selected dot was collected
C27_Witness ==
    /\ heldDot # <<>>
    /\ heldDot[1].state = "collected"
    /\ heldDot[1].previousState = "selected"
    /\ heldDot[1].collection.collectedBy = <<"u", "1">>

C28_Update ==
    \/ \E newState \in DotStates : UpdateDotState(newState)
    \/ \E i \in 1..Len(VisualUpdates) : UpdateDotVisual(VisualUpdates[i])
    \/ \E sessionId \in SessionIds, source \in CollectionSources :
          CollectDot(sessionId, source)

\* C28: updateDotState, updateDotVisual and collectDot keep the dot's id,
\* gridPosition and content and leave physics.isStatic true; updateDotVisual
\* also keeps state and previousState
C28_UpdatesKeepIdentity ==
    [][/\ C28_Update =>
             /\ heldDot'[1].id = heldDot[1].id
             /\ heldDot'[1].gridPosition = heldDot[1].gridPosition
             /\ heldDot'[1].content = heldDot[1].content
             /\ heldDot'[1].physics.isStatic
       /\ \A i \in 1..Len(VisualUpdates) :
             UpdateDotVisual(VisualUpdates[i]) =>
                /\ heldDot'[1].state = heldDot[1].state
                /\ heldDot'[1].previousState = heldDot[1].previousState]_vars

\* C28 witness: the overflow dot of the last cell was hovered, made
\* transparent and collected, and is still the same dot
C28_Witness ==
    /\ heldDot # <<>>
    /\ heldDot[1].id = <<"o", "v", "e", "r", "f", "l", "o", "w", "-", "5", "-", "4">>
    /\ heldDot[1].gridPosition = [row |-> 5, col |-> 4]
    /\ heldDot[1].visual.opacity = 0
    /\ heldDot[1].state = "collected"
    /\ heldDot[1].previousState = "hovered"
    /\ heldDot[1].physics.isStatic

\* the id of the cell at a display row and column, after the prefix if any
C29_Id(row, col, prefix) ==
    (IF prefix = Null THEN <<>> ELSE prefix \o <<"-">>)
    \o NumToStr(row) \o <<"-">> \o NumToStr(col)

\* C29: createDotGrid(content, {rowOffset, prefix}) has the shape of content;
\* the dot at array cell (r, c) has gridPosition (r + rowOffset, c), the id
\* of that display row and column after the prefix, and the cell's key as
\* its content key, or is an empty dot that is not collectible when the
\* cell is falsy
C29_GridMirrorsContent ==
    (lastCall[1].done /\ lastCall[1].fn = "createDotGrid") =>
        LET gridContent == lastCall[1].args[1]
            rowOffset == lastCall[1].args[2]
            prefix == lastCall[1].args[3]
            grid == lastCall[1].result
        IN  /\ Len(grid) = Len(gridContent)
            /\ \A r \in 1..Len(gridContent) :
                  /\ Len(grid[r]) = Len(gridContent[r])
                  /\ \A c \in 1..Len(gridContent[r]) :
                        LET made == grid[r][c]
                            cell == gridContent[r][c]
                            row == (r - 1) + rowOffset
                        IN  /\ made.gridPosition = [row |-> row, col |-> c - 1]
                            /\ made.id = C29_Id(row, c - 1, prefix)
                            /\ IF cell = <<>>
                               THEN /\ made.content = <<>>
                                    /\ ~made.collection.collectible
                               ELSE /\ made.content # <<>>
                                    /\ made.content[1].key = cell
                                    /\ made.collection.collectible

\* C29 witness: the overflow grid of one row, an empty cell and the key Ab,
\* was built: the second dot is overflow-5-1 and the first is empty
C29_Witness ==
    /\ lastCall[1].done
    /\ lastCall[1].fn = "createDotGrid"
    /\ lastCall[1].args[1] = << << <<>>, <<"A", "b">> >> >>
    /\ lastCall[1].args[2] = OverflowRowOffset
    /\ lastCall[1].result[1][2].id
          = <<"o", "v", "e", "r", "f", "l", "o", "w", "-", "5", "-", "1">>
    /\ lastCall[1].result[1][2].content[1].key = <<"A", "b">>
    /\ lastCall[1].result[1][1].content = <<>>

\* C30: createArtistGrid(artists, cols) of n artists has ceil(n / cols)
\* rows; the dot at row r and column c is the dot of artists[r * cols + c]
\* at gridPosition (r, c); the flattened grid lists the artists in their
\* order; every row but the last has cols dots and the last has the rest,
\* without padding; no artists give no rows
C30_ArtistGridChunksInOrder ==
    (lastCall[1].done /\ lastCall[1].fn = "createArtistGrid") =>
        LET artists == lastCall[1].args[1]
            c == lastCall[1].args[2]
            grid == lastCall[1].result
            n == Len(artists)
            flat == flattenDotGrid(grid)
        IN  /\ Len(grid) = (n + c - 1) \div c
            /\ n = 0 => grid = <<>>
            /\ \A r \in 1..Len(grid) :
                  /\ Len(grid[r]) =
                        IF r < Len(grid) THEN c ELSE n - (Len(grid) - 1) * c
                  /\ Len(grid[r]) \in 1..c
                  /\ \A k \in 1..Len(grid[r]) :
                        LET made == grid[r][k]
                            artist == artists[(r - 1) * c + k]
                        IN  /\ made.gridPosition = [row |-> r - 1, col |-> k - 1]
                            /\ made.id = artist.slug
                            /\ made.content[1].key = artist.slug
                            /\ made.content[1].label = artist.artistName
            /\ Len(flat) = n
            /\ \A i \in 1..n : flat[i].id = artists[i].slug

\* C30 witness: three artists in two columns give a row of two and a row of
\* one
C30_Witness ==
    /\ lastCall[1].done
    /\ lastCall[1].fn = "createArtistGrid"
    /\ lastCall[1].args = <<<<ArtistJD, ArtistInstagram, ArtistJD>>, 2>>
    /\ Len(lastCall[1].result) = 2
    /\ Len(lastCall[1].result[2]) = 1
    /\ lastCall[1].result[2][1].id = ArtistJD.slug
    /\ lastCall[1].result[2][1].gridPosition = [row |-> 1, col |-> 0]

\* C33: while a dot is selected no idle animation starts or runs: isAnimating
\* is false, neither the ripple nor the random timer is armed, and rippleDot
\* and randomDot are null, however the selection was made.
C33_NoAnimationWhileSelected ==
    selectedDot # Null =>
        /\ ~isAnimatingRef
        /\ timers.ripple = 0
        /\ timers.random = 0
        /\ rippleDot = Null
        /\ randomDot = Null

\* C34: rippleDot and randomDot are never both non-null, and while either is
\* non-null its animation is in progress: isAnimating is true and the
\* matching interval timer is armed.
C34_AnimatedDotHasAnimation ==
    /\ rippleDot = Null \/ randomDot = Null
    /\ rippleDot # Null => isAnimatingRef /\ timers.ripple > 0
    /\ randomDot # Null => isAnimatingRef /\ timers.random > 0

\* C35: selectedDot is null exactly when selectedContent is null, in the
\* initial state of every initial slug and in every state after it.
C35_SelectionSetTogether ==
    (selectedDot = Null) <=> (selectedContent = Null)

\* C35, the one case: a dot is selected without content only while the
\* selection made at mount by an initial slug of no artist stands.
C35_ContentMissingOnlyForUnknownSlug ==
    (selectedDot = Null) # (selectedContent = Null) =>
        /\ mountSelection
        /\ selectedDot = <<"x">>
        /\ selectedContent = Null

\* C37: handleBackgroundClick with no content selected changes no state
\* variable, arms and clears no timer and does not navigate; handleClose
\* always clears the selection, collapses the card and pushes the root route.
C37_BackgroundClickNeedsContent ==
    [][/\ (handleBackgroundClick /\ selectedContent = Null) =>
             UNCHANGED <<reactState, gridMousePosition, inactivityTimer,
                         rippleIntervalRef, randomIntervalRef, isAnimatingRef,
                         usedDotsRef, animationCountRef, timers,
                         closureSelectedDot, navigation, mounted>>
       /\ handleClose =>
             /\ selectedDot' = Null
             /\ selectedContent' = Null
             /\ isContentExpanded' = FALSE
             /\ navigation' = [via |-> "push", to |-> RootRoute]]_vars

\* C37 witness: one event was taken in the middle of a ripple with no content
\* selected, and the ripple goes on with nothing hovered, nothing selected
\* and no navigation: the background was clicked.
C37_Witness ==
    /\ inputsLeft = MaxInputs - 1
    /\ selectedContent = Null
    /\ selectedDot = Null
    /\ hoveredDot = Null
    /\ ~lookupMissed
    /\ navigation.via = "none"
    /\ timers.ripple = 1
    /\ Len(rippleTrace) >= 2
    /\ rippleDot # Null

\* the ids of the dots of the hook's three sub-grids
C36_SubGridIds ==
    LET Ids(dots) == {dots[i].id : i \in 1..Len(dots)}
    IN  Ids(artistDots) \cup Ids(flattenDotGrid(mainDots))
           \cup Ids(flattenDotGrid(overflowDots))

\* C36: every id an idle animation assigns to rippleDot or randomDot is the
\* id of a dot of artistDots, mainDots or overflowDots.
C36_AnimatedIdIsADot ==
    /\ rippleDot # Null => rippleDot \in C36_SubGridIds
    /\ randomDot # Null => randomDot \in C36_SubGridIds

\* the ids of the dots of a grid, with their multiplicity
C31_Ids(grid) == LET dots == flattenDotGrid(grid)
                 IN  [i \in 1..Len(dots) |-> dots[i].id]

C31_Distinct(ids) ==
    \A i \in 1..Len(ids), j \in 1..Len(ids) : i # j => ids[i] # ids[j]

C31_Disjoint(ids, others) ==
    \A i \in 1..Len(ids), j \in 1..Len(others) : ids[i] # others[j]

\* C31: in the grids the hook builds from artists with distinct slugs, the
\* ids of a sub-grid are pairwise distinct and no id occurs in two sub-grids.
C31_GridIdsDistinct ==
    (lastCall # <<>> /\ lastCall[1].fn = "useDotGrid" /\ lastCall[1].done) =>
        LET artist == C31_Ids(lastCall[1].result.artistDots)
            main == C31_Ids(lastCall[1].result.mainDots)
            overflow == C31_Ids(lastCall[1].result.overflowDots)
        IN  /\ C31_Distinct(artist)
            /\ C31_Distinct(main)
            /\ C31_Distinct(overflow)
            /\ C31_Disjoint(artist, main)
            /\ C31_Disjoint(artist, overflow)
            /\ C31_Disjoint(main, overflow)

\* C31, the part that holds: the ids of a sub-grid are pairwise distinct, and
\* no id of the main grid is an id of the overflow grid.
C31_DistinctWithinSubGrid ==
    (lastCall # <<>> /\ lastCall[1].fn = "useDotGrid" /\ lastCall[1].done) =>
        LET artist == C31_Ids(lastCall[1].result.artistDots)
            main == C31_Ids(lastCall[1].result.mainDots)
            overflow == C31_Ids(lastCall[1].result.overflowDots)
        IN  /\ C31_Distinct(artist)
            /\ C31_Distinct(main)
            /\ C31_Distinct(overflow)
            /\ C31_Disjoint(main, overflow)

\* C32: an idle animation starts only from an inactivity timeout that was
\* armed after the last hover or grid mouse-move: a hover or a mouse-move
\* while the timeout is pending restarts the delay.
C32_AnimationAfterFullDelay ==
    [][(InactivityFire /\ ~isAnimatingRef /\ isAnimatingRef')
       => ~pointerSinceArmed]_vars

\* C38: for every combination of the display flags, every current position
\* and every selected position, the undefined one included, a call of
\* getDotAnimateState returns the scale, opacity, x and y that the Dot
\* component computes inline for the same props, and a render of the Dot
\* component computes what getDotAnimateState returns.
C38_DotProps ==
    lastCall[1].args[1] @@ [currentPosition |-> lastCall[1].args[2],
                            selectedPosition |-> lastCall[1].args[3]]

C38_AnimateStateMatchesDot ==
    /\ (lastCall # <<>> /\ lastCall[1].fn = "getDotAnimateState"
           /\ lastCall[1].done)
          => lastCall[1].result = Dot_animate(C38_DotProps)
    /\ (lastCall # <<>> /\ lastCall[1].fn = "Dot" /\ lastCall[1].done)
          => lastCall[1].result
                = getDotAnimateState(lastCall[1].args[2], lastCall[1].args[3],
                                     lastCall[1].args[1])

\* what does hold of the two computations: scale and opacity always agree,
\* and the offsets agree unless the dot is selected, is not the clicked dot
\* and the selected position is undefined
C38_MatchesWhenPositionDefined ==
    (lastCall # <<>> /\ lastCall[1].fn = "getDotAnimateState"
        /\ lastCall[1].done)
       => LET inline == Dot_animate(C38_DotProps)
              state == lastCall[1].args[1]
          IN  /\ lastCall[1].result.scale = inline.scale
              /\ lastCall[1].result.opacity = inline.opacity
              /\ (lastCall[1].args[3] # <<>>
                     \/ ~state.isSelected \/ state.isClickedDot)
                    => /\ lastCall[1].result.x = inline.x
                       /\ lastCall[1].result.y = inline.y

\* C39: ripplePattern(rows, cols) yields every cell of the rows x cols grid
\* exactly once, row by row and from left to right within a row; and with
\* the hook's five rows and its default five columns (and with any other
\* number of columns, one at least) the ids of the cells it yields are the
\* successive values of rippleDot in a ripple of the hook, from 0-0 until
\* getNextRipplePosition returns null.
RECURSIVE C39_HookRipple(_, _, _)
C39_HookRipple(current, c, left) ==
    LET next == getNextRipplePosition(current, c)
    IN  IF next = Null \/ left = 0 THEN <<>>
        ELSE <<next>> \o C39_HookRipple(next, c, left - 1)

C39_RipplePatternRowMajor ==
    (lastCall # <<>> /\ lastCall[1].fn = "ripplePattern" /\ lastCall[1].done)
       => LET r == lastCall[1].args[1]
              c == lastCall[1].args[2]
              yields == lastCall[1].result
          IN  /\ \A row \in 0..(r - 1), col \in 0..(c - 1) :
                    Cardinality({k \in 1..Len(yields) :
                                    yields[k] = [row |-> row, col |-> col]}) = 1
              /\ \A k \in 1..Len(yields) :
                    /\ yields[k].row \in 0..(r - 1)
                    /\ yields[k].col \in 0..(c - 1)
              /\ \A i, j \in 1..Len(yields) :
                    i < j => \/ yields[i].row < yields[j].row
                             \/ /\ yields[i].row = yields[j].row
                                /\ yields[i].col < yields[j].col
              /\ (r = NumRows /\ c >= 1)
                    => [k \in 1..Len(yields) |->
                           CellId(yields[k].row, yields[k].col)]
                          = C39_HookRipple(Null, c, NumRows * c + 1)

C39_Witness ==
    /\ lastCall # <<>>
    /\ lastCall[1].fn = "ripplePattern"
    /\ lastCall[1].done
    /\ lastCall[1].args = <<NumRows, DefaultCols>>
    /\ Len(lastCall[1].result) = 25
    /\ lastCall[1].result[6] = [row |-> 1, col |-> 0]
    /\ C39_HookRipple(Null, DefaultCols, 26)[25] = <<"4", "-", "4">>

\* C40: randomPattern(rows, cols, count) yields min(count, rows * cols)
\* positions, each a cell of the grid and no two the same, and with count
\* omitted it yields every cell exactly once; convergePattern(rows, cols,
\* center) yields every cell exactly once, and no position it yields is
\* further from center than a position it yielded before.
C40_CellsOnce(yields, r, c) ==
    /\ \A k \in 1..Len(yields) :
          /\ yields[k].row \in 0..(r - 1)
          /\ yields[k].col \in 0..(c - 1)
    /\ \A i, j \in 1..Len(yields) : yields[i] = yields[j] => i = j

C40_PatternsCoverTheGrid ==
    /\ (lastCall # <<>> /\ lastCall[1].fn = "randomPattern" /\ lastCall[1].done)
          => LET r == lastCall[1].args[1]
                 c == lastCall[1].args[2]
                 count == lastCall[1].args[3]
                 yields == lastCall[1].result
             IN  /\ C40_CellsOnce(yields, r, c)
                 /\ count = <<>> => Len(yields) = r * c
                 /\ count # <<>>
                       => Len(yields) = (IF count[1] < r * c THEN count[1]
                                         ELSE r * c)
    /\ (lastCall # <<>> /\ lastCall[1].fn = "convergePattern"
           /\ lastCall[1].done)
          => LET r == lastCall[1].args[1]
                 c == lastCall[1].args[2]
                 center == lastCall[1].args[3]
                 yields == lastCall[1].result
             IN  /\ C40_CellsOnce(yields, r, c)
                 /\ Len(yields) = r * c
                 /\ \A i, j \in 1..Len(yields) :
                       i < j => DistanceSquared(yields[i], center)
                                   >= DistanceSquared(yields[j], center)

\* a shuffled order cut short by count
C40_Witness ==
    /\ lastCall # <<>>
    /\ lastCall[1].fn = "randomPattern"
    /\ lastCall[1].done
    /\ lastCall[1].args = <<2, 2, <<3>>>>
    /\ lastCall[1].result
          = <<[row |-> 1, col |-> 1], [row |-> 0, col |-> 0],
              [row |-> 1, col |-> 0]>>

\* a grid converging on a centre inside it
C40_ConvergeWitness ==
    /\ lastCall # <<>>
    /\ lastCall[1].fn = "convergePattern"
    /\ lastCall[1].done
    /\ lastCall[1].args = <<3, 3, [row |-> 1, col |-> 1]>>
    /\ Len(lastCall[1].result) = 9
    /\ lastCall[1].result[1] = [row |-> 0, col |-> 0]
    /\ lastCall[1].result[9] = [row |-> 1, col |-> 1]

====
